---- MODULE Spec2Model ----
(***************************************************************************)
(* A model of simplegit: the content-addressed object store                *)
(* (core/object.py), the staging index and tree builder (core/index.py),   *)
(* the reference/HEAD layer (core/ref.py) and Repository.commit            *)
(* (core/repository.py).                                                   *)
(*                                                                         *)
(* Representation.  A Python bytes or str value is a sequence of naturals  *)
(* (byte values, resp. code points).  None and a raised exception are the  *)
(* one-element sequences None and Raise, which no string equals.  Python   *)
(* indexes from 0, TLA+ from 1: Slice, From and Find take and return       *)
(* Python (0-based) indexes.                                               *)
(***************************************************************************)
EXTENDS Integers, Sequences, FiniteSets, TLC

VARIABLES
    objects,      \* .simplegit/objects: <<dir, file>> -> compressed bytes on disk
    sha1_table,   \* the contents hashlib.sha1 has been applied to (see Sha1Hex)
    entries,      \* Index.entries, a dict in insertion order: [key |-> path, val |-> info]
    refs,         \* the ref files, and the temporary files safe_write makes: name below .simplegit -> content
    HEAD,         \* content of .simplegit/HEAD
    worktree,     \* the working tree: path below the repository root -> file content
    index_file,   \* content of .simplegit/index
    procs,        \* the processes inside an operation: process -> its position and locals
    ret,          \* the last call: its name, its arguments and what it returned
    hist          \* earlier calls of the run, kept for the properties

vars == <<objects, sha1_table, entries, refs, HEAD, index_file, worktree, procs, ret, hist>>

-----------------------------------------------------------------------------
(* Bounds of the model *)

MaxLen == 1         \* longest payload passed to hash_object
MaxObjects == 2     \* most distinct contents hashed in one run of SpecStore
MaxEntries == 2     \* most paths in an index file that SpecTree loads
MaxTreeCalls == 2   \* write_tree calls in one run of SpecTree

-----------------------------------------------------------------------------
(* Values and characters *)

None == <<-1>>
Raise == <<-2>>

NUL == 0
LF == 10
SP == 32
SLASH == 47

S_blob == <<98,108,111,98>>
S_tree == <<116,114,101,101>>
S_commit == <<99,111,109,109,105,116>>
HexDigits == <<48,49,50,51,52,53,54,55,56,57,97,98,99,100,101,102>>

Min(a, b) == IF a < b THEN a ELSE b
Max(a, b) == IF a > b THEN a ELSE b

\* s[i:j] of Python, 0 <= i
Slice(s, i, j) == SubSeq(s, i + 1, Min(j, Len(s)))
\* s[i:] of Python, 0 <= i
From(s, i) == SubSeq(s, i + 1, Len(s))

\* s.find(b, i) for a single byte b: the first index >= i holding b, or -1
Find(s, b, i) ==
    LET hits == {j \in (i + 1)..Len(s) : s[j] = b}
    IN IF hits = {} THEN -1
       ELSE (CHOOSE j \in hits : \A k \in hits : j <= k) - 1

\* s.rfind(b): the last index holding b, or -1
RFind(s, b) ==
    LET hits == {j \in 1..Len(s) : s[j] = b}
    IN IF hits = {} THEN -1
       ELSE (CHOOSE j \in hits : \A k \in hits : j >= k) - 1

StartsWith(s, p) == Len(p) <= Len(s) /\ SubSeq(s, 1, Len(p)) = p

IsSpace(c) == c \in {9, 10, 11, 12, 13, 32}

\* str.strip()
RECURSIVE LStrip(_)
LStrip(s) == IF s # <<>> /\ IsSpace(s[1]) THEN LStrip(Tail(s)) ELSE s
RECURSIVE RStrip(_)
RStrip(s) ==
    IF s # <<>> /\ IsSpace(s[Len(s)]) THEN RStrip(SubSeq(s, 1, Len(s) - 1)) ELSE s
Strip(s) == RStrip(LStrip(s))

\* str(n) for n >= 0
RECURSIVE Dec(_)
Dec(n) == IF n < 10 THEN <<48 + n>> ELSE Dec(n \div 10) \o <<48 + (n % 10)>>

\* lexicographic order of str by code point, as sorted() compares the keys
RECURSIVE StrLess(_, _)
StrLess(a, b) ==
    IF b = <<>> THEN FALSE
    ELSE IF a = <<>> THEN TRUE
    ELSE IF a[1] # b[1] THEN a[1] < b[1]
    ELSE StrLess(Tail(a), Tail(b))

\* str.encode(): UTF-8 of code points below 0x800
RECURSIVE Encode(_)
Encode(s) ==
    IF \A k \in 1..Len(s) : s[k] < 128 THEN s
    ELSE IF Len(s) = 1 THEN <<192 + (s[1] \div 64), 128 + (s[1] % 64)>>
    ELSE Encode(SubSeq(s, 1, Len(s) \div 2)) \o Encode(SubSeq(s, (Len(s) \div 2) + 1, Len(s)))

\* bytes.decode(): the inverse on well-formed input
\* a lead byte is followed by a continuation byte, which follows a lead byte
WellFormed(b) ==
    \A k \in 1..Len(b) :
        /\ b[k] >= 192 => (k < Len(b) /\ b[k + 1] \in 128..191)
        /\ b[k] \in 128..191 => (k > 1 /\ b[k - 1] >= 192)

RECURSIVE DecodeWellFormed(_)
DecodeWellFormed(b) ==
    IF \A k \in 1..Len(b) : b[k] < 128 THEN b
    ELSE IF Len(b) = 2 THEN <<(b[1] - 192) * 64 + (b[2] - 128)>>
    ELSE LET h == Len(b) \div 2
             m == IF b[h + 1] \in 128..191 THEN h + 1 ELSE h
         IN DecodeWellFormed(SubSeq(b, 1, m)) \o DecodeWellFormed(SubSeq(b, m + 1, Len(b)))

Decode(b) == IF WellFormed(b) THEN DecodeWellFormed(b) ELSE Raise

-----------------------------------------------------------------------------
(* utils/compression.py.  zlib is modelled by its framing: the two header  *)
(* bytes, the data, and a check value of the data (its length and the      *)
(* number of its odd bytes, standing for Adler-32) that decompress         *)
(* verifies.                                                               *)

ByteSum(s) == (1 + Len(s) + Cardinality({k \in 1..Len(s) : s[k] % 2 = 1})) % 251

compress(data) == <<120, 156>> \o data \o <<ByteSum(data)>>

decompress(z) ==
    IF Len(z) >= 3 /\ SubSeq(z, 1, 2) = <<120, 156>>
       /\ z[Len(z)] = ByteSum(SubSeq(z, 3, Len(z) - 1))
    THEN SubSeq(z, 3, Len(z) - 1)
    ELSE Raise

-----------------------------------------------------------------------------
(* hashlib.sha1(store).hexdigest().  SHA-1 is modelled as a collision-free *)
(* function fixed on first use: sha1_table lists the contents hashed so    *)
(* far and the digest of a content is its position in that list, written   *)
(* as 40 hexadecimal digits (20 bytes, the leading ones zero).             *)

HexByte(b) == <<HexDigits[(b \div 16) + 1], HexDigits[(b % 16) + 1]>>

Sha1Pos(tab, store) ==
    IF \E i \in 1..Len(tab) : tab[i] = store
    THEN CHOOSE i \in 1..Len(tab) : tab[i] = store
    ELSE Len(tab) + 1

Sha1Hex(tab, store) == [i \in 1..38 |-> 48] \o HexByte(Sha1Pos(tab, store))

Sha1Seen(tab, store) ==
    IF \E i \in 1..Len(tab) : tab[i] = store THEN tab ELSE Append(tab, store)

-----------------------------------------------------------------------------
(* core/object.py: GitObject.  A file system state of the object store is  *)
(* the record fs = [objects, sha1_table]; an operation that writes returns *)
(* the new record together with its result in the field sha1.              *)

\* os.path.join(objects_dir, sha1[:2], sha1[2:])
object_path(sha1) == <<Slice(sha1, 0, 2), From(sha1, 2)>>

\* data is [str |-> BOOLEAN, val |-> sequence]: a str or a bytes argument
AsBytes(data) == IF data.str THEN Encode(data.val) ELSE data.val

Bytes(b) == [str |-> FALSE, val |-> b]
Str(s) == [str |-> TRUE, val |-> s]

\* a mutation of hash_object: the object file is opened for append
hash_object_append(fs, data, obj_type) ==
    LET header == obj_type \o <<SP>> \o Dec(Len(data.val)) \o <<NUL>>
        store == Encode(header) \o AsBytes(data)
        sha1 == Sha1Hex(fs.sha1_table, store)
        path == object_path(sha1)
        old == IF path \in DOMAIN fs.objects THEN fs.objects[path] ELSE <<>>
    IN [objects |-> (path :> (old \o compress(store))) @@ fs.objects,
        sha1_table |-> Sha1Seen(fs.sha1_table, store),
        sha1 |-> sha1]

hash_object(fs, data, obj_type) ==
    LET header == obj_type \o <<SP>> \o Dec(Len(data.val)) \o <<NUL>>
        store == Encode(header) \o AsBytes(data)
        sha1 == Sha1Hex(fs.sha1_table, store)
        path == object_path(sha1)
    IN [objects |-> (path :> compress(store)) @@ fs.objects,
        sha1_table |-> Sha1Seen(fs.sha1_table, store),
        sha1 |-> sha1]

\* header.split()[0]: the first whitespace-separated word, IndexError if none
FirstWord(s) ==
    LET t == LStrip(s)
        ends == {j \in 1..Len(t) : IsSpace(t[j])}
    IN IF t = <<>> THEN Raise
       ELSE IF ends = {} THEN t
       ELSE SubSeq(t, 1, (CHOOSE j \in ends : \A k \in ends : j <= k) - 1)

\* a mutation of read_object: the content starts at the NUL, not after it
read_object_offbyone(objs, sha1) ==
    IF object_path(sha1) \notin DOMAIN objs THEN <<None, None>>
    ELSE LET data == decompress(objs[object_path(sha1)])
             null_index == Find(data, NUL, 0)
         IN IF data = Raise THEN <<Raise, Raise>>
            ELSE <<FirstWord(Decode(SubSeq(data, 1, null_index))), From(data, null_index)>>

read_object(objs, sha1) ==
    IF object_path(sha1) \notin DOMAIN objs THEN <<None, None>>
    ELSE LET data == decompress(objs[object_path(sha1)])
             null_index == Find(data, NUL, 0)
             \* data[:null_index]; data[:-1] when there is no NUL
             header == Decode(SubSeq(data, 1, IF null_index = -1 THEN Len(data) - 1
                                                                  ELSE null_index))
             object_type == FirstWord(header)
             content == From(data, null_index + 1)
         IN IF data = Raise \/ object_type = Raise THEN <<Raise, Raise>>
            ELSE <<object_type, content>>

FS == [objects |-> objects, sha1_table |-> sha1_table]

-----------------------------------------------------------------------------
(* core/object.py: Blob and Tree *)

S_100644 == <<49,48,48,54,52,52>>
S_040000 == <<48,52,48,48,48,48>>

\* a mutation of Blob.create: the hash is returned and nothing is stored
blob_create_nostore(fs, content) ==
    [hash_object(fs, Bytes(AsBytes(content)), S_blob) EXCEPT !.objects = fs.objects]

\* Blob.create: a str is encoded first, so hash_object always gets bytes
blob_create(fs, content) == hash_object(fs, Bytes(AsBytes(content)), S_blob)

\* a mutation of Blob.read: the type of the object is not looked at
blob_read_any(objs, sha1) == read_object(objs, sha1)[2]

\* Blob.read
blob_read(objs, sha1) ==
    LET r == read_object(objs, sha1)
    IN IF r[1] # S_blob THEN Raise ELSE r[2]

HexVal(c) ==
    IF \E k \in 1..16 : HexDigits[k] = c
    THEN (CHOOSE k \in 1..16 : HexDigits[k] = c) - 1
    ELSE -1

\* bytes.fromhex(h), ValueError for an odd length or a non-hex digit
FromHex(h) ==
    IF Len(h) % 2 = 1 \/ \E k \in 1..Len(h) : HexVal(h[k]) = -1 THEN Raise
    ELSE [k \in 1..(Len(h) \div 2) |-> 16 * HexVal(h[2 * k - 1]) + HexVal(h[2 * k])]

\* "".join(f"{b:02x}" for b in bs)
ToHex(bs) == [k \in 1..(2 * Len(bs)) |-> HexByte(bs[(k + 1) \div 2])[2 - (k % 2)]]

\* sorted(entries, key=lambda x: x[1]) and entries.sort(key=...): a stable
\* sort by name, so entries of equal name keep the order they came in
InsertByName(sorted, e) ==
    LET n == Cardinality({k \in 1..Len(sorted) : ~StrLess(e[2], sorted[k][2])})
    IN SubSeq(sorted, 1, n) \o <<e>> \o SubSeq(sorted, n + 1, Len(sorted))

RECURSIVE SortByName(_)
SortByName(es) ==
    IF es = <<>> THEN <<>>
    ELSE InsertByName(SortByName(SubSeq(es, 1, Len(es) - 1)), es[Len(es)])

\* the loop body of Tree.create, for entries already in their final order
RECURSIVE TreeContent(_)
TreeContent(es) ==
    IF es = <<>> THEN <<>>
    ELSE Encode(es[1][1] \o <<SP>> \o es[1][2] \o <<NUL>>) \o FromHex(es[1][3])
             \o TreeContent(Tail(es))

\* a mutation of Tree.create: the entries are written in the order given
tree_create_unsorted(fs, es) == hash_object(fs, Bytes(TreeContent(es)), S_tree)

\* Tree.create(entries), entries a list of <<mode, name, sha1>>
tree_create(fs, es) == hash_object(fs, Bytes(TreeContent(SortByName(es))), S_tree)

\* the while loop of Tree.read from offset i
RECURSIVE TreeEntries(_, _)
TreeEntries(content, i) ==
    IF i >= Len(content) THEN <<>>
    ELSE LET null_pos == Find(content, NUL, i)
             mode_name == Decode(Slice(content, i, null_pos))
             space_pos == Find(mode_name, SP, 0)
             mode == SubSeq(mode_name, 1, IF space_pos = -1 THEN Len(mode_name) - 1
                                                            ELSE space_pos)
             name == From(mode_name, space_pos + 1)
             sha1 == ToHex(Slice(content, null_pos + 1, null_pos + 21))
         IN IF null_pos = -1 THEN <<>>
            ELSE <<<<mode, name, sha1>>>> \o TreeEntries(content, null_pos + 21)

\* what Tree.read gives when it raises: a list that no list of entries equals
TreeError == <<Raise>>

\* Tree.read
tree_read(objs, sha1) ==
    LET r == read_object(objs, sha1)
    IN IF r[1] # S_tree THEN TreeError ELSE TreeEntries(r[2], 0)

-----------------------------------------------------------------------------
(* core/index.py: the index file.  json.dumps writes a dict as its items   *)
(* between braces, separated by commas, and an item as                     *)
(* "key":{"sha1","mode"}: the model keeps these two fields of an entry and *)
(* leaves the white space of indent=2 out.                                 *)

\* 34 is '"', 58 ':', 123 '{', 125 '}', 44 ','
json_item(it) ==
    <<34>> \o it.key \o <<34, 58, 123, 34>> \o it.val.sha1 \o <<34, 44, 34>>
        \o it.val.mode \o <<34, 125>>

RECURSIVE json_items(_)
json_items(e) ==
    IF e = <<>> THEN <<>>
    ELSE json_item(e[1]) \o (IF Len(e) > 1 THEN <<44>> ELSE <<>>) \o json_items(Tail(e))

\* json.dumps(self.entries)
json_dumps(e) == <<123>> \o json_items(e) \o <<125>>

-----------------------------------------------------------------------------
(* core/index.py: the tree builder.  A dict is the sequence of its items   *)
(* in insertion order.                                                     *)

\* d[key] = value for a dict of [key, val] items
DictSet(d, key, value) ==
    IF \E k \in 1..Len(d) : d[k].key = key
    THEN [k \in 1..Len(d) |-> IF d[k].key = key THEN [key |-> key, val |-> value]
                                                 ELSE d[k]]
    ELSE Append(d, [key |-> key, val |-> value])

\* d[key] of a defaultdict(dict): an empty dict when the key is missing
DictGet(d, key) ==
    IF \E k \in 1..Len(d) : d[k].key = key
    THEN d[CHOOSE k \in 1..Len(d) : d[k].key = key].val
    ELSE <<>>

AllSlashes(s) == \A k \in 1..Len(s) : s[k] = SLASH

RECURSIVE RStripSlash(_)
RStripSlash(s) ==
    IF s # <<>> /\ s[Len(s)] = SLASH THEN RStripSlash(SubSeq(s, 1, Len(s) - 1)) ELSE s

\* os.path.split(p) of posixpath, <<head, tail>>
path_split(p) ==
    LET i == RFind(p, SLASH) + 1
        head == Slice(p, 0, i)
    IN <<IF head # <<>> /\ ~AllSlashes(head) THEN RStripSlash(head) ELSE head,
         From(p, i)>>

\* os.path.basename(p)
basename(p) == From(p, RFind(p, SLASH) + 1)

\* the grouping loop of Index.write_tree: dirname -> {filename -> file_info}
RECURSIVE GroupByDir(_, _)
GroupByDir(ents, dirs) ==
    IF ents = <<>> THEN dirs
    ELSE LET sp == path_split(ents[1].key)
         IN GroupByDir(Tail(ents),
                       DictSet(dirs, sp[1], DictSet(DictGet(dirs, sp[1]), sp[2], ents[1].val)))

\* the entries of the files of one directory, in dict order
FileEntries(files) ==
    [k \in 1..Len(files) |-> <<files[k].val.mode, files[k].key, files[k].val.sha1>>]

\* [d for d in dirs.keys() if d.startswith(path + "/") if d != path]
Subdirs(path, dirs) ==
    LET RECURSIVE Pick(_)
        Pick(k) ==
            IF k > Len(dirs) THEN <<>>
            ELSE (IF StartsWith(dirs[k].key, path \o <<SLASH>>) /\ dirs[k].key # path
                  THEN <<dirs[k].key>> ELSE <<>>) \o Pick(k + 1)
    IN Pick(1)

\* Index._write_tree_recursive(path, dirs, tree), and its loop over subdirs
RECURSIVE write_tree_recursive(_, _, _)
RECURSIVE write_subdirs(_, _, _, _)

write_subdirs(fs, subdirs, dirs, acc) ==
    IF subdirs = <<>> THEN [objects |-> fs.objects, sha1_table |-> fs.sha1_table,
                            entries |-> acc]
    ELSE LET r == write_tree_recursive(fs, subdirs[1], dirs)
         IN write_subdirs([objects |-> r.objects, sha1_table |-> r.sha1_table],
                          Tail(subdirs), dirs,
                          Append(acc, <<S_040000, basename(subdirs[1]), r.sha1>>))

write_tree_recursive(fs, path, dirs) ==
    LET r == write_subdirs(fs, Subdirs(path, dirs), dirs, FileEntries(DictGet(dirs, path)))
    IN tree_create([objects |-> r.objects, sha1_table |-> r.sha1_table],
                   SortByName(r.entries))

\* Index.write_tree
write_tree(fs, ents) == write_tree_recursive(fs, <<>>, GroupByDir(ents, <<>>))

-----------------------------------------------------------------------------
(* core/object.py: Commit *)

S_treeSP == <<116,114,101,101,32>>                       \* "tree "
S_parentSP == <<112,97,114,101,110,116,32>>              \* "parent "
S_authorSP == <<97,117,116,104,111,114,32>>              \* "author "
S_committerSP == <<99,111,109,109,105,116,116,101,114,32>>   \* "committer "
S_parent == <<112,97,114,101,110,116>>
S_author == <<97,117,116,104,111,114>>
S_committer == <<99,111,109,109,105,116,116,101,114>>
S_timezone == <<45,48,53,48,48>>                         \* "-0500"
\* "SimpleGit User <user@example.com>"
DefaultAuthor ==
    <<83,105,109,112,108,101,71,105,116,32,85,115,101,114,32,60,117,115,101,114,
      64,101,120,97,109,112,108,101,46,99,111,109,62>>

\* Python truth of a str-or-None value
Truthy(x) == x # None /\ x # <<>>

\* the text Commit.create hashes; timestamp is int(time.time())
commit_content(tree_sha1, message, parent, author, committer, timestamp) ==
    LET a == IF Truthy(author) THEN author ELSE DefaultAuthor
        c == IF Truthy(committer) THEN committer ELSE a
    IN S_treeSP \o tree_sha1 \o <<LF>>
         \o (IF Truthy(parent) THEN S_parentSP \o parent \o <<LF>> ELSE <<>>)
         \o S_authorSP \o a \o <<SP>> \o Dec(timestamp) \o <<SP>> \o S_timezone \o <<LF>>
         \o S_committerSP \o c \o <<SP>> \o Dec(timestamp) \o <<SP>> \o S_timezone \o <<LF>>
         \o <<LF>> \o message \o <<LF>>

\* a mutation of Commit.create: the parent line is left out
commit_create_noparent(fs, tree_sha1, message, parent, author, committer, timestamp) ==
    hash_object(fs, Str(commit_content(tree_sha1, message, None, author, committer,
                                       timestamp)), S_commit)

\* Commit.create
commit_create(fs, tree_sha1, message, parent, author, committer, timestamp) ==
    hash_object(fs, Str(commit_content(tree_sha1, message, parent, author, committer,
                                       timestamp)), S_commit)

\* s.split("\n")
RECURSIVE SplitLines(_)
SplitLines(s) ==
    LET i == Find(s, LF, 0)
    IN IF i = -1 THEN <<s>> ELSE <<Slice(s, 0, i)>> \o SplitLines(From(s, i + 1))

\* "\n".join(lines)
RECURSIVE JoinLines(_)
JoinLines(lines) ==
    IF lines = <<>> THEN <<>>
    ELSE IF Len(lines) = 1 THEN lines[1]
    ELSE lines[1] \o <<LF>> \o JoinLines(Tail(lines))

\* what Commit.read gives when it raises
CommitError == [error |-> "ValueError"]

\* Commit.read: the dict it returns, an absent key reading None as with
\* dict.get; the derived author name, timestamp and date keys are left out
commit_read(objs, sha1) ==
    LET r == read_object(objs, sha1)
        lines == SplitLines(Decode(r[2]))
        blanks == {k \in 1..Len(lines) : lines[k] = <<>>}
        message_idx == IF blanks = {} THEN 0 ELSE CHOOSE k \in blanks : \A m \in blanks : k <= m
        \* key, value = line.split(" ", 1)
        Key(k) == Slice(lines[k], 0, Find(lines[k], SP, 0))
        Val(k) == From(lines[k], Find(lines[k], SP, 0) + 1)
        Having(key) == {k \in 1..(message_idx - 1) : Key(k) = key}
        First(key) == IF Having(key) = {} THEN None
                      ELSE Val(CHOOSE k \in Having(key) : \A m \in Having(key) : k <= m)
        LastOf(key) == IF Having(key) = {} THEN None
                       ELSE Val(CHOOSE k \in Having(key) : \A m \in Having(key) : k >= m)
    IN IF r[1] # S_commit THEN CommitError
       ELSE IF message_idx = 0
               \/ \E k \in 1..(message_idx - 1) : Find(lines[k], SP, 0) = -1 THEN CommitError
       ELSE [tree |-> LastOf(S_tree),
             parent |-> First(S_parent),
             author |-> LastOf(S_author),
             committer |-> LastOf(S_committer),
             message |-> Strip(JoinLines(SubSeq(lines, message_idx + 1, Len(lines))))]

\* Commit.get_parent
get_parent(objs, sha1) ==
    LET c == commit_read(objs, sha1) IN IF c = CommitError THEN Raise ELSE c.parent

-----------------------------------------------------------------------------
(* core/ref.py.  refs maps the name of every file below .simplegit/refs,   *)
(* relative to .simplegit, to its content, and the name of every directory *)
(* that update_ref made there to Dir.  The directories refs and refs/heads *)
(* exist from init on and are not listed.                                  *)

S_refColon == <<114,101,102,58,32>>                      \* "ref: "
S_refs_heads == <<114,101,102,115,47,104,101,97,100,115,47>>   \* "refs/heads/"
S_master == <<109,97,115,116,101,114>>

IsDir(name) == RStripSlash(name) \in {<<114,101,102,115>>, RStripSlash(S_refs_heads)}

\* what refs holds for a directory
Dir == <<-3>>

\* os.path.isdir(os.path.join(git_dir, name))
IsDirAt(rf, name) ==
    \/ IsDir(name)
    \/ RStripSlash(name) \in DOMAIN rf /\ rf[RStripSlash(name)] = Dir

\* os.path.isfile(os.path.join(git_dir, name))
IsFileAt(rf, name) == name \in DOMAIN rf /\ rf[name] # Dir

\* os.path.exists(os.path.join(git_dir, name))
Exists(rf, name) == name \in DOMAIN rf \/ IsDirAt(rf, name)

\* os.path.dirname(p)
dirname(p) == path_split(p)[1]

\* the directories above p, up to .simplegit itself
RECURSIVE Ancestors(_)
Ancestors(p) ==
    IF dirname(p) = <<>> \/ dirname(p) = p THEN {}
    ELSE {dirname(p)} \cup Ancestors(dirname(p))

S_tmp == <<116,109,112>>                                 \* "tmp"

\* the name tempfile.NamedTemporaryFile picks, one that no file has: its
\* random part is the least number no file so named carries
TmpName(rf) ==
    LET used == {basename(n) : n \in DOMAIN rf}
        free == {k \in 0..Cardinality(used) : (S_tmp \o Dec(k)) \notin used}
    IN S_tmp \o Dec(CHOOSE k \in free : \A m \in free : k <= m)

\* rf without the file name
Remove(rf, name) == [n \in (DOMAIN rf) \ {name} |-> rf[n]]

\* Reference.update_ref raises: ensure_dir or NamedTemporaryFile finds a file
\* where the directory of the ref has to be
update_ref_raises(rf, ref_name) == \E a \in Ancestors(ref_name) : IsFileAt(rf, a)

\* Reference.update_ref: the new refs (the call returns True unless it
\* raises).  ensure_dir makes the missing directories; safe_write writes a
\* temporary file and shutil.move puts it at the ref, or inside the ref when
\* that is a directory.
update_ref(rf, ref_name, sha1) ==
    LET made == {a \in Ancestors(ref_name) : ~Exists(rf, a)}
        dirs == [a \in made |-> Dir] @@ rf
        dst == IF IsDirAt(rf, ref_name)
               THEN RStripSlash(ref_name) \o <<SLASH>> \o TmpName(rf)
               ELSE ref_name
    IN IF update_ref_raises(rf, ref_name) THEN rf
       ELSE (dst :> (sha1 \o <<LF>>)) @@ dirs

\* Reference.get_ref; open() of a directory raises
get_ref(rf, ref_name) ==
    IF ~Exists(rf, ref_name) THEN None
    ELSE IF IsDirAt(rf, ref_name) THEN Raise
    ELSE Strip(rf[ref_name])

\* Reference.delete_ref: <<new refs, returned value, raised>>; os.remove of a
\* directory raises
delete_ref(rf, ref_name) ==
    IF ~Exists(rf, ref_name) THEN <<rf, FALSE, FALSE>>
    ELSE IF IsDirAt(rf, ref_name) THEN <<rf, FALSE, TRUE>>
    ELSE <<Remove(rf, ref_name), TRUE, FALSE>>

\* Reference.list_refs(prefix), for a prefix below refs: the dict as a function
list_refs(rf, prefix) ==
    LET found == IF ~IsDirAt(rf, prefix) THEN {}
                 ELSE {n \in DOMAIN rf :
                         /\ rf[n] # Dir
                         /\ StartsWith(n, RStripSlash(prefix) \o <<SLASH>>)}
    IN [n \in found |-> get_ref(rf, n)]

\* Reference.list_branches
list_branches(rf) ==
    LET found == list_refs(rf, S_refs_heads)
    IN [b \in {From(n, 11) : n \in DOMAIN found} |-> found[S_refs_heads \o b]]

\* a mutation of create_branch: a branch that exists is left as it is
create_branch_absent(rf, branch_name, sha1) ==
    IF Exists(rf, S_refs_heads \o branch_name) THEN rf
    ELSE update_ref(rf, S_refs_heads \o branch_name, sha1)

\* Reference.create_branch, get_branch, delete_branch
create_branch(rf, branch_name, sha1) == update_ref(rf, S_refs_heads \o branch_name, sha1)
get_branch(rf, branch_name) == get_ref(rf, S_refs_heads \o branch_name)
\* a mutation of delete_branch: the ref is kept
delete_branch_keep(rf, branch_name) == <<rf, TRUE, FALSE>>

delete_branch(rf, branch_name) == delete_ref(rf, S_refs_heads \o branch_name)

\* a mutation of update_HEAD: the target is written as it is, never as a ref
update_HEAD_raw(rf, target) == target

\* Reference.update_HEAD: the new content of HEAD (the call returns True)
update_HEAD(rf, target) ==
    IF StartsWith(target, S_refs_heads) \/ Exists(rf, S_refs_heads \o target)
    THEN S_refColon \o (IF ~StartsWith(target, S_refs_heads) THEN S_refs_heads \o target
                                                             ELSE target)
    ELSE target

\* Reference.get_HEAD: <<is_detached, target>>; head is None when the file is missing
get_HEAD(head) ==
    IF head = None THEN <<FALSE, None>>
    ELSE LET content == Strip(head)
             ref == From(content, 5)
         IN IF StartsWith(content, S_refColon)
            THEN <<FALSE, IF StartsWith(ref, S_refs_heads) THEN From(ref, 11) ELSE ref>>
            ELSE <<TRUE, content>>

\* a mutation of resolve_HEAD: a branch without a file is an error
resolve_HEAD_strict(rf, head) ==
    IF get_HEAD(head)[1] THEN get_HEAD(head)[2]
    ELSE IF ~Exists(rf, S_refs_heads \o get_HEAD(head)[2]) THEN Raise
    ELSE get_branch(rf, get_HEAD(head)[2])

\* Reference.resolve_HEAD
resolve_HEAD(rf, head) ==
    IF get_HEAD(head)[1] THEN get_HEAD(head)[2]
    ELSE get_branch(rf, get_HEAD(head)[2])

-----------------------------------------------------------------------------
(* core/repository.py: Repository.commit.  A repository state is the       *)
(* record [objects, sha1_table, refs, HEAD]; commit returns the new state   *)
(* with the returned value in result and, for the properties, the value     *)
(* resolve_HEAD gave it in head_sha1.                                       *)

Repo == [objects |-> objects, sha1_table |-> sha1_table, refs |-> refs, HEAD |-> HEAD]

\* a mutation of commit: the new hash is always written to HEAD itself
commit_to_HEAD(rp, ents, message, timestamp) ==
    LET t == write_tree(rp, ents)
        head_sha1 == resolve_HEAD(rp.refs, rp.HEAD)
        c == commit_create(t, t.sha1, message, head_sha1, None, None, timestamp)
    IN IF ~Truthy(message)
       THEN [objects |-> rp.objects, sha1_table |-> rp.sha1_table, refs |-> rp.refs,
             HEAD |-> rp.HEAD, result |-> None, head_sha1 |-> None]
       ELSE IF head_sha1 = Raise
       THEN [objects |-> t.objects, sha1_table |-> t.sha1_table, refs |-> rp.refs,
             HEAD |-> rp.HEAD, result |-> Raise, head_sha1 |-> Raise]
       ELSE [objects |-> c.objects, sha1_table |-> c.sha1_table,
             refs |-> rp.refs, HEAD |-> update_HEAD(rp.refs, c.sha1),
             result |-> c.sha1, head_sha1 |-> head_sha1]

commit(rp, ents, message, timestamp) ==
    LET t == write_tree(rp, ents)
        head_sha1 == resolve_HEAD(rp.refs, rp.HEAD)
        c == commit_create(t, t.sha1, message, head_sha1, None, None, timestamp)
        is_detached == get_HEAD(rp.HEAD)[1]
        target == get_HEAD(rp.HEAD)[2]
    IN IF ~Truthy(message)
       THEN [objects |-> rp.objects, sha1_table |-> rp.sha1_table, refs |-> rp.refs,
             HEAD |-> rp.HEAD, result |-> None, head_sha1 |-> None]
       ELSE IF ~Truthy(t.sha1)
       THEN [objects |-> t.objects, sha1_table |-> t.sha1_table, refs |-> rp.refs,
             HEAD |-> rp.HEAD, result |-> None, head_sha1 |-> None]
       ELSE IF head_sha1 = Raise
       THEN [objects |-> t.objects, sha1_table |-> t.sha1_table, refs |-> rp.refs,
             HEAD |-> rp.HEAD, result |-> Raise, head_sha1 |-> Raise]
       ELSE [objects |-> c.objects, sha1_table |-> c.sha1_table,
             refs |-> IF is_detached THEN rp.refs
                      ELSE create_branch(rp.refs, target, c.sha1),
             HEAD |-> IF is_detached THEN update_HEAD(rp.refs, c.sha1) ELSE rp.HEAD,
             result |-> c.sha1, head_sha1 |-> head_sha1]

-----------------------------------------------------------------------------
(* SpecStore: the object store alone, driven by hash_object calls *)

Alphabet == {NUL, SP}
StrAlphabet == {233}
ObjTypes == {S_blob, S_tree, S_commit}

SeqsUpTo(S, n) == UNION {[1..k -> S] : k \in 0..n}

Payloads == {Bytes(b) : b \in SeqsUpTo(Alphabet, MaxLen)}
               \cup {Str(<<c>>) : c \in StrAlphabet}

InitRepo ==
    /\ objects = <<>>
    /\ sha1_table = <<>>
    /\ entries = <<>>
    /\ refs = <<>>
    /\ HEAD = S_refColon \o S_refs_heads \o S_master
    /\ ret = [op |-> "init"]
    /\ worktree = <<>>
    /\ procs = <<>>
    /\ index_file = json_dumps(<<>>)
    /\ hist = <<>>

HashObject(data, obj_type) ==
    LET r == hash_object(FS, data, obj_type)
    IN /\ Len(r.sha1_table) <= MaxObjects
       /\ objects' = r.objects
       /\ sha1_table' = r.sha1_table
       /\ ret' = [op |-> "hash_object", sha1 |-> r.sha1,
                  again |-> \E i \in 1..Len(hist) :
                                hist[i].data = data /\ hist[i].type = obj_type]
       /\ hist' = IF \E i \in 1..Len(hist) : hist[i] = [data |-> data, type |-> obj_type,
                                                        sha1 |-> r.sha1]
                  THEN hist
                  ELSE Append(hist, [data |-> data, type |-> obj_type, sha1 |-> r.sha1])
       /\ UNCHANGED <<entries, refs, HEAD, worktree, procs, index_file>>

NextStore == \E data \in Payloads, t \in ObjTypes : HashObject(data, t)

SpecStore == InitRepo /\ [][NextStore]_vars

\* C1: every object stored by hash_object(p, t) is read back by read_object
\* as exactly (t, bytes of p), whatever else was stored before or after it
RoundTrip ==
    \A i \in 1..Len(hist) :
        read_object(objects, hist[i].sha1) = <<hist[i].type, AsBytes(hist[i].data)>>

\* a later object has been stored after a payload with a NUL, and an empty one
RoundTripWitness ==
    /\ Len(hist) >= 2
    /\ \E i \in 1..Len(hist) : \E j \in 1..Len(hist[i].data.val) :
           ~hist[i].data.str /\ hist[i].data.val[j] = NUL /\ i < Len(hist)
    /\ \E i \in 1..Len(hist) : hist[i].data.val = <<>>

\* C2: storing a (payload, type) that was stored before returns the hash it
\* returned then and leaves every object file and the set of keys as they were
StoreIdempotent ==
    [][(ret'.op = "hash_object" /\ ret'.again) =>
          /\ objects' = objects
          /\ hist' = hist
          /\ \E i \in 1..Len(hist) : hist[i].sha1 = ret'.sha1]_vars

\* the first of two stored objects has been stored again
StoreIdempotentWitness ==
    /\ ret.op = "hash_object" /\ ret.again
    /\ Len(hist) >= 2
    /\ hist[1].sha1 = ret.sha1

-----------------------------------------------------------------------------
(* SpecTree: the tree builder applied to index files.  Index(repo) loads   *)
(* whatever dict the index file holds (Index.load), in the file's order;   *)
(* write_tree is then called on it.  An index entry is recorded without    *)
(* its size and mtime, which _add_file stores and nothing reads.           *)

P_a == <<97>>                          \* "a"
P_b == <<98>>                          \* "b"
P_dx == <<100,47,120>>                 \* "d/x"
\* add("/r/p") and add("/r/q") in a repository at /r: add joins the path it
\* is given with each file below it, so an absolute argument gives absolute keys
P_rpsf == <<47,114,47,112,47,115,47,102>>   \* "/r/p/s/f"
P_rqsf == <<47,114,47,113,47,115,47,102>>   \* "/r/q/s/f"

IndexPaths == {P_a, P_b, P_dx, P_rpsf, P_rqsf}

\* a 40-digit hash that repeats one hex digit, as the tests write them
FakeSha(c) == [i \in 1..40 |-> c]
BlobShas == {FakeSha(49), FakeSha(50)}

IndexItems == [key : IndexPaths, val : [sha1 : BlobShas, mode : {S_100644}]]

IndexFiles ==
    {e \in SeqsUpTo(IndexItems, MaxEntries) :
        \A i, j \in 1..Len(e) : i # j => e[i].key # e[j].key}

\* Index.__init__ / Index.load on an index file holding the dict e.  A load
\* right after a load only replaces the dict just loaded, so the model loads
\* once and then builds.
LoadIndex(e) ==
    /\ ret.op # "load"
    /\ Len(hist) < MaxTreeCalls
    /\ entries' = e
    /\ ret' = [op |-> "load"]
    /\ UNCHANGED <<objects, sha1_table, refs, HEAD, hist, worktree, procs, index_file>>

WriteTree ==
    LET r == write_tree(FS, entries)
    IN /\ ret.op = "load"
       /\ objects' = r.objects
       /\ sha1_table' = r.sha1_table
       /\ ret' = [op |-> "write_tree", sha1 |-> r.sha1]
       /\ hist' = Append(hist, [index |-> entries, sha1 |-> r.sha1])
       /\ UNCHANGED <<entries, refs, HEAD, worktree, procs, index_file>>

NextTree == (\E e \in IndexFiles : LoadIndex(e)) \/ WriteTree

SpecTree == InitRepo /\ [][NextTree]_vars

Items(e) == {e[k] : k \in 1..Len(e)}

\* C3: two index states with the same set of path -> (mode, hash) entries,
\* in whatever order they were inserted, get the same root tree hash
TreeOrderIndependent ==
    \A i, j \in 1..Len(hist) :
        Items(hist[i].index) = Items(hist[j].index) => hist[i].sha1 = hist[j].sha1

\* C4: two index states that differ in the name, mode or hash of a staged
\* entry get different root tree hashes
TreeSensitive ==
    \A i, j \in 1..Len(hist) :
        Items(hist[i].index) # Items(hist[j].index) => hist[i].sha1 # hist[j].sha1

\* "a/b/c".split("/")
RECURSIVE SplitSlash(_)
SplitSlash(s) ==
    LET i == Find(s, SLASH, 0)
    IN IF i = -1 THEN <<s>> ELSE <<Slice(s, 0, i)>> \o SplitSlash(From(s, i + 1))

\* the tree reached from the tree sha1 by the directory names segs, or None
RECURSIVE WalkDirs(_, _, _)
WalkDirs(objs, sha1, segs) ==
    IF segs = <<>> THEN sha1
    ELSE LET es == tree_read(objs, sha1)
             hits == IF es = TreeError THEN {}
                     ELSE {k \in 1..Len(es) : es[k][1] = S_040000 /\ es[k][2] = segs[1]}
         IN IF Cardinality(hits) # 1 THEN None
            ELSE WalkDirs(objs, es[CHOOSE k \in hits : TRUE][3], Tail(segs))

\* the directories of an index: every proper prefix of a staged path
IndexDirs(e) ==
    UNION {{SubSeq(SplitSlash(e[k].key), 1, n) : n \in 0..(Len(SplitSlash(e[k].key)) - 1)} :
              k \in 1..Len(e)}

\* the names directly inside directory d: files and immediate subdirectories
Children(e, d) ==
    {SplitSlash(e[k].key)[Len(d) + 1] :
        k \in {m \in 1..Len(e) : Len(SplitSlash(e[m].key)) > Len(d)
                                  /\ SubSeq(SplitSlash(e[m].key), 1, Len(d)) = d}}

\* C5: the tree graph written by write_tree mirrors the index: every staged
\* path is found with its mode and hash by walking its segments from the root
\* tree, and the tree of every directory has one entry per file or immediate
\* subdirectory and no other entry
TreeMirrorsIndex ==
    ret.op = "write_tree" =>
        /\ \A k \in 1..Len(entries) :
              LET segs == SplitSlash(entries[k].key)
                  dir == WalkDirs(objects, ret.sha1, SubSeq(segs, 1, Len(segs) - 1))
              IN /\ dir # None
                 /\ \E m \in 1..Len(tree_read(objects, dir)) :
                        tree_read(objects, dir)[m] =
                            <<S_100644, segs[Len(segs)], entries[k].val.sha1>>
        /\ \A d \in IndexDirs(entries) \cup {<<>>} :
              LET dir == WalkDirs(objects, ret.sha1, d)
              IN /\ dir # None
                 /\ Len(tree_read(objects, dir)) = Cardinality(Children(entries, d))

-----------------------------------------------------------------------------
(* Spec: one repository under add, commit, Commit.create and the calls of  *)
(* Reference, from the state Repository.init leaves.                        *)

MaxHashed == 3      \* objects hashed in one run

S_f == <<102>>                         \* "f"
S_m == <<109>>                         \* "m"
Branches == {S_master, S_f}
Messages == {<<>>, S_m}
FileContents == {<<120>>}
\* the readings of int(time.time()): one second covers a run
Times == {1}

\* Index._add_file on a readable file holding content: the new store and entries
add_file(fs, ents, path, content) ==
    LET b == blob_create(fs, Bytes(content))
    IN [objects |-> b.objects, sha1_table |-> b.sha1_table,
        entries |-> DictSet(ents, path, [sha1 |-> b.sha1, mode |-> S_100644])]

\* the commit HEAD resolves to, when it resolves to some text
Resolved(rf, head) ==
    IF resolve_HEAD(rf, head) \in {None, Raise} THEN {} ELSE {resolve_HEAD(rf, head)}

Init ==
    /\ objects = <<>>
    /\ sha1_table = <<>>
    /\ entries = <<>>
    /\ refs = <<>>
    /\ HEAD = S_refColon \o S_refs_heads \o S_master
    /\ ret = [op |-> "init"]
    /\ worktree = <<>>
    /\ procs = <<>>
    /\ index_file = json_dumps(<<>>)
    /\ hist = [base |-> None, log |-> <<>>]

\* hist after a call that sets refs or HEAD directly: the commits counted
\* from here on start at what HEAD now resolves to
Rebase(rf, head) == [base |-> resolve_HEAD(rf, head), log |-> <<>>]

AddFile(path, content) ==
    LET r == add_file(FS, entries, path, content)
    IN /\ Len(r.sha1_table) <= MaxHashed
       /\ objects' = r.objects
       /\ sha1_table' = r.sha1_table
       /\ entries' = r.entries
       /\ ret' = [op |-> "add", result |-> TRUE]
       /\ UNCHANGED <<refs, HEAD, hist, worktree, procs, index_file>>

Commit(message, timestamp) ==
    LET r == commit(Repo, entries, message, timestamp)
    IN /\ Len(r.sha1_table) <= MaxHashed
       /\ objects' = r.objects
       /\ sha1_table' = r.sha1_table
       /\ refs' = r.refs
       /\ HEAD' = r.HEAD
       /\ ret' = [op |-> "commit", message |-> message, result |-> r.result,
                  head_sha1 |-> r.head_sha1]
       /\ hist' = IF r.result \in {None, Raise} THEN hist
                  ELSE [hist EXCEPT !.log = Append(@, r.result)]
       /\ UNCHANGED <<entries, worktree, procs, index_file>>

CommitCreate(tree_sha1, message, parent) ==
    LET r == commit_create(FS, tree_sha1, message, parent, None, None, 1)
    IN /\ Len(r.sha1_table) <= MaxHashed
       /\ objects' = r.objects
       /\ sha1_table' = r.sha1_table
       /\ ret' = [op |-> "Commit.create", message |-> message, result |-> r.sha1]
       /\ UNCHANGED <<entries, refs, HEAD, hist, worktree, procs, index_file>>

UpdateHEAD(target) ==
    /\ HEAD' = update_HEAD(refs, target)
    /\ ret' = [op |-> "update_HEAD", target |-> target]
    /\ hist' = Rebase(refs, HEAD')
    /\ UNCHANGED <<objects, sha1_table, entries, refs, worktree, procs, index_file>>

CreateBranch(branch_name, sha1) ==
    /\ refs' = create_branch(refs, branch_name, sha1)
    /\ ret' = [op |-> "create_branch", result |-> TRUE]
    /\ hist' = Rebase(refs', HEAD)
    /\ UNCHANGED <<objects, sha1_table, entries, HEAD, worktree, procs, index_file>>

DeleteBranch(branch_name) ==
    /\ refs' = delete_branch(refs, branch_name)[1]
    /\ ret' = [op |-> "delete_branch", result |-> delete_branch(refs, branch_name)[2]]
    /\ hist' = Rebase(refs', HEAD)
    /\ UNCHANGED <<objects, sha1_table, entries, HEAD, worktree, procs, index_file>>

Targets == Branches \cup {<<>>, S_refs_heads \o S_f}

Next ==
    \/ \E content \in FileContents : AddFile(P_a, content)
    \/ \E message \in Messages, timestamp \in Times : Commit(message, timestamp)
    \/ CommitCreate(FakeSha(49), <<>>, None)
    \/ \E target \in Targets \cup Resolved(refs, HEAD) : UpdateHEAD(target)
    \/ \E b \in Branches, sha1 \in Resolved(refs, HEAD) : CreateBranch(b, sha1)
    \/ \E b \in Branches : DeleteBranch(b)

Spec == Init /\ [][Next]_vars

\* a call of Repository.commit that returned a hash
Committed(r) == r.op = "commit" /\ r.result \notin {None, Raise}

\* C6: a successful commit moves exactly the current position.  Afterwards
\* resolve_HEAD() is the new hash; from Symbolic(b), refs/heads/b holds the new
\* hash, HEAD is unchanged and every other ref is as it was; from Detached,
\* HEAD is Detached(new hash) and no ref is created or changed.
CommitMovesCurrent ==
    [][Committed(ret') =>
         LET new == ret'.result
             b == S_refs_heads \o get_HEAD(HEAD)[2]
         IN /\ resolve_HEAD(refs', HEAD') = new
            /\ IF get_HEAD(HEAD)[1]
               THEN /\ get_HEAD(HEAD') = <<TRUE, new>>
                    /\ refs' = refs
               ELSE /\ HEAD' = HEAD
                    /\ DOMAIN refs' = DOMAIN refs \cup {b}
                    /\ refs'[b] = new \o <<LF>>
                    /\ \A n \in DOMAIN refs' \ {b} : refs'[n] = refs[n]]_vars

\* a commit made on a detached HEAD while a branch exists
CommitMovesCurrentWitness ==
    /\ Committed(ret)
    /\ HEAD = ret.result
    /\ DOMAIN refs # {}

\* the stored commit has a "parent " line among its headers
HasParentLine(objs, sha1) ==
    LET lines == SplitLines(Decode(read_object(objs, sha1)[2]))
    IN \E k \in 1..Len(lines) :
         /\ StartsWith(lines[k], S_parentSP)
         /\ \A j \in 1..k : lines[j] # <<>>

\* the first n commits met from sha1 along the parent links
RECURSIVE Ancestry(_, _, _)
Ancestry(objs, sha1, n) ==
    IF n = 0 \/ sha1 \in {None, Raise} THEN <<>>
    ELSE <<sha1>> \o Ancestry(objs, get_parent(objs, sha1), n - 1)

Reverse(s) == [k \in 1..Len(s) |-> s[Len(s) + 1 - k]]

\* C7: the commit that commit() creates has as its parent the value that
\* resolve_HEAD() gave just before, and no parent line exactly when that value
\* was None; after n commits in a row the parent links from resolve_HEAD() visit
\* those n commits newest first, and the oldest has as its parent what HEAD
\* resolved to before them (none, when they started from no commit).
CommitParent ==
    /\ Committed(ret) =>
         /\ commit_read(objects, ret.result) # CommitError
         /\ commit_read(objects, ret.result).parent = ret.head_sha1
         /\ HasParentLine(objects, ret.result) <=> (ret.head_sha1 # None)
    /\ hist.log # <<>> =>
         /\ Ancestry(objects, resolve_HEAD(refs, HEAD), Len(hist.log)) = Reverse(hist.log)
         /\ get_parent(objects, hist.log[1]) = hist.base

\* two commits in a row from a repository without a commit
CommitParentWitness ==
    /\ Committed(ret)
    /\ hist.base = None
    /\ Len(hist.log) >= 2
    /\ ret.result = hist.log[Len(hist.log)]
    /\ ret.head_sha1 = hist.log[Len(hist.log) - 1]

\* C8: a commit with an empty message is rejected before anything is written,
\* in Commit.create and in Repository.commit alike: no object is added, no ref
\* and not HEAD changes, and no hash is returned.
EmptyMessageRejected ==
    [][(ret'.op \in {"commit", "Commit.create"} /\ ret'.message = <<>>) =>
         /\ objects' = objects
         /\ refs' = refs
         /\ HEAD' = HEAD
         /\ ret'.result \in {None, Raise}]_vars

\* C9: HEAD holds one of its two forms, "ref: refs/heads/<branch>" with a
\* branch name that is not empty, or a raw value that is not empty, and
\* get_HEAD() reports that form.
HeadOneForm ==
    /\ HEAD # None
    /\ \/ /\ StartsWith(HEAD, S_refColon \o S_refs_heads)
          /\ Len(HEAD) > Len(S_refColon \o S_refs_heads)
          /\ get_HEAD(HEAD) = <<FALSE, From(HEAD, 16)>>
          /\ get_HEAD(HEAD)[2] # <<>>
       \/ /\ ~StartsWith(HEAD, S_refColon)
          /\ HEAD # <<>>
          /\ get_HEAD(HEAD) = <<TRUE, HEAD>>

\* C10: after update_HEAD(b) with b an existing branch, get_HEAD() is
\* (False, b) and resolve_HEAD() is the value refs/heads/b holds.
HeadFollowsBranch ==
    (ret.op = "update_HEAD" /\ (S_refs_heads \o ret.target) \in DOMAIN refs) =>
        /\ get_HEAD(HEAD) = <<FALSE, ret.target>>
        /\ resolve_HEAD(refs, HEAD) \o <<LF>> = refs[S_refs_heads \o ret.target]

\* update_HEAD("f") on the existing branch f, made while both branches exist
HeadFollowsBranchWitness ==
    /\ ret.op = "update_HEAD"
    /\ ret.target = S_f
    /\ {S_refs_heads \o b : b \in Branches} \subseteq DOMAIN refs
    /\ HEAD = S_refColon \o S_refs_heads \o S_f

\* the target is the name of a branch whose file exists, given bare or in full
NamesBranch(rf, target) ==
    \/ (S_refs_heads \o target) \in DOMAIN rf
    \/ StartsWith(target, S_refs_heads) /\ target \in DOMAIN rf

\* C11: update_HEAD(target) with a target that is not the name of an existing
\* branch (the empty target apart, which C9 covers) leaves HEAD detached at
\* the target: get_HEAD() is (True, target) and resolve_HEAD() is the target.
HeadDetachedOtherwise ==
    (ret.op = "update_HEAD" /\ ret.target # <<>> /\ ~NamesBranch(refs, ret.target)) =>
        /\ get_HEAD(HEAD) = <<TRUE, ret.target>>
        /\ resolve_HEAD(refs, HEAD) = ret.target

\* a call that sets a ref or HEAD: a successful commit or a call of Reference
MovesRef(r) == Committed(r) \/ r.op \in {"update_HEAD", "create_branch", "delete_branch"}

\* C12: after init HEAD is symbolic on master and resolve_HEAD() is None, not
\* an error; while resolve_HEAD() is None, every call other than a successful
\* commit or a ref or HEAD update leaves it None and leaves get_HEAD() as it was.
UnbornHead ==
    /\ get_HEAD(HEAD) = <<FALSE, S_master>>
    /\ resolve_HEAD(refs, HEAD) = None
    /\ [][(resolve_HEAD(refs, HEAD) = None /\ ~MovesRef(ret')) =>
            /\ resolve_HEAD(refs', HEAD') = None
            /\ get_HEAD(HEAD') = get_HEAD(HEAD)]_vars

\* a commit refused for its empty message after a file was added, in a
\* repository still as init left its refs and HEAD
UnbornHeadWitness ==
    /\ ret.op = "commit"
    /\ ret.result = None
    /\ objects # <<>>
    /\ refs = <<>>
    /\ get_HEAD(HEAD) = <<FALSE, S_master>>
    /\ resolve_HEAD(refs, HEAD) = None

-----------------------------------------------------------------------------
(* SpecRead: the object store under hash_object and the typed readers       *)
(* Blob.read, Tree.read and Commit.read.                                    *)

ReadPayloads == {Bytes(<<>>), Bytes(<<120>>)}

\* the hashes a caller can hold: those hash_object returned, and one of no object
KnownShas == {hist[i].sha1 : i \in 1..Len(hist)} \cup {FakeSha(49)}

\* reader is the type whose reader is called; ok tells whether it returned
ReadTyped(reader, sha1) ==
    /\ ret' = [op |-> "read", reader |-> reader, sha1 |-> sha1,
               lookup |-> read_object(objects, sha1),
               ok |-> CASE reader = S_blob -> blob_read(objects, sha1) # Raise
                        [] reader = S_tree -> tree_read(objects, sha1) # TreeError
                        [] reader = S_commit -> commit_read(objects, sha1) # CommitError]
    /\ UNCHANGED <<objects, sha1_table, entries, refs, HEAD, hist, worktree, procs, index_file>>

NextRead ==
    \/ \E data \in ReadPayloads, t \in ObjTypes : HashObject(data, t)
    \/ \E reader \in ObjTypes, sha1 \in KnownShas : ReadTyped(reader, sha1)

SpecRead == InitRepo /\ [][NextRead]_vars

\* C13: a typed reader returns only for a hash stored with the type of the
\* reader; for an object stored with another type it fails; for a hash of no
\* object read_object gives (None, None) and the reader fails; and a read
\* leaves the object store as it was.
TypedRead ==
    /\ [](ret.op = "read" =>
            LET stored == {i \in 1..Len(hist) : hist[i].sha1 = ret.sha1}
            IN /\ ret.ok => \E i \in stored : hist[i].type = ret.reader
               /\ (\E i \in stored : hist[i].type # ret.reader) => ~ret.ok
               /\ stored = {} => ret.lookup = <<None, None>> /\ ~ret.ok)
    /\ [][ret'.op = "read" => objects' = objects]_vars

\* Blob.read called on a stored tree object
TypedReadWitness ==
    /\ ret.op = "read"
    /\ ret.reader = S_blob
    /\ ret.lookup[1] = S_tree
    /\ ~ret.ok

-----------------------------------------------------------------------------
(* SpecTreeCodec: Tree.create applied to a list of entries, and Tree.read   *)
(* of what it stored.                                                       *)

MaxTreeEntries == 2     \* longest list of entries given to Tree.create

S_aSPb == <<97,32,98>>                 \* "a b"
EntryNames == {P_a, P_b, S_aSPb, <<233>>}
\* digests of twenty NUL bytes, of twenty space bytes, and of neither
Sha20 == [i \in 1..40 |-> IF i % 2 = 1 THEN 50 ELSE 48]
EntryShas == {FakeSha(48), Sha20, FakeSha(97)}
TreeItems == {S_100644, S_040000} \X EntryNames \X EntryShas

\* the lists of entries with pairwise distinct names
EntryLists ==
    {es \in SeqsUpTo(TreeItems, MaxTreeEntries) :
        \A i, j \in 1..Len(es) : i # j => es[i][2] # es[j][2]}

InitCodec ==
    /\ objects = <<>>
    /\ sha1_table = <<>>
    /\ entries = <<>>
    /\ refs = <<>>
    /\ HEAD = S_refColon \o S_refs_heads \o S_master
    /\ worktree = <<>>
    /\ procs = <<>>
    /\ index_file = json_dumps(<<>>)
    /\ hist = <<>>
    /\ ret \in {[op |-> "entries", entries |-> es] : es \in EntryLists}

TreeCreate ==
    LET r == tree_create(FS, ret.entries)
    IN /\ ret.op = "entries"
       /\ objects' = r.objects
       /\ sha1_table' = r.sha1_table
       /\ ret' = [op |-> "Tree.create", entries |-> ret.entries, sha1 |-> r.sha1]
       /\ UNCHANGED <<entries, refs, HEAD, hist, worktree, procs, index_file>>

NextCodec == TreeCreate

SpecTreeCodec == InitCodec /\ [][NextCodec]_vars

\* C14: Tree.read of the tree that Tree.create stored for entries with
\* pairwise distinct names gives exactly those entries, in increasing order
\* of name.
TreeRoundTrip ==
    ret.op = "Tree.create" =>
        LET got == tree_read(objects, ret.sha1)
        IN /\ got # TreeError
           /\ Len(got) = Len(ret.entries)
           /\ {got[k] : k \in 1..Len(got)} = {ret.entries[k] : k \in 1..Len(ret.entries)}
           /\ \A k \in 1..(Len(got) - 1) : StrLess(got[k][2], got[k + 1][2])

\* a directory named "a b" with the digest of spaces, given after a file "b"
\* with the digest of NULs
TreeRoundTripWitness ==
    /\ ret.op = "Tree.create"
    /\ ret.entries = <<<<S_100644, P_b, FakeSha(48)>>, <<S_040000, S_aSPb, Sha20>>>>
    /\ Len(tree_read(objects, ret.sha1)) = 2

-----------------------------------------------------------------------------
(* SpecRefs: the ref files under update_ref and delete_ref.  hist is the    *)
(* map the calls describe: for every name the hash of its latest update     *)
(* that returned, None when there is none or a delete that returned True    *)
(* came after it.                                                           *)

MaxRefFiles == 3        \* most files and directories the calls leave below refs

S_refs == <<114,101,102,115,47>>                              \* "refs/"
R_f == S_refs_heads \o S_f                                    \* "refs/heads/f"
R_fx == S_refs_heads \o <<102,47,120>>                        \* "refs/heads/f/x"
R_v == <<114,101,102,115,47,116,97,103,115,47,118>>           \* "refs/tags/v"
RefNames == {R_f, R_fx, R_v}
RefShas == {FakeSha(49), FakeSha(50)}

InitRefs ==
    /\ objects = <<>>
    /\ sha1_table = <<>>
    /\ entries = <<>>
    /\ refs = <<>>
    /\ HEAD = S_refColon \o S_refs_heads \o S_master
    /\ ret = [op |-> "init"]
    /\ worktree = <<>>
    /\ procs = <<>>
    /\ index_file = json_dumps(<<>>)
    /\ hist = [n \in RefNames |-> None]

UpdateRef(ref_name, sha1) ==
    /\ refs' = update_ref(refs, ref_name, sha1)
    /\ Cardinality(DOMAIN refs') <= MaxRefFiles
    /\ ret' = [op |-> "update_ref", name |-> ref_name,
               raised |-> update_ref_raises(refs, ref_name)]
    /\ hist' = IF update_ref_raises(refs, ref_name) THEN hist
               ELSE [hist EXCEPT ![ref_name] = sha1]
    /\ UNCHANGED <<objects, sha1_table, entries, HEAD, worktree, procs, index_file>>

DeleteRef(ref_name) ==
    /\ refs' = delete_ref(refs, ref_name)[1]
    /\ ret' = [op |-> "delete_ref", name |-> ref_name,
               result |-> delete_ref(refs, ref_name)[2],
               raised |-> delete_ref(refs, ref_name)[3],
               existed |-> hist[ref_name] # None]
    /\ hist' = IF delete_ref(refs, ref_name)[2] THEN [hist EXCEPT ![ref_name] = None]
               ELSE hist
    /\ UNCHANGED <<objects, sha1_table, entries, HEAD, worktree, procs, index_file>>

NextRefs ==
    \/ \E n \in RefNames, sha1 \in RefShas : UpdateRef(n, sha1)
    \/ \E n \in RefNames : DeleteRef(n)

SpecRefs == InitRefs /\ [][NextRefs]_vars

\* C15: the ref files behave as the map of the calls: get_ref gives for every
\* name what the map holds, list_refs("refs/") is the map restricted to the
\* names it holds a hash for, and delete_ref returns True, without raising,
\* exactly when the map held a hash for the name.
RefsAreMap ==
    /\ \A n \in RefNames : get_ref(refs, n) = hist[n]
    /\ list_refs(refs, S_refs) = [n \in {m \in RefNames : hist[m] # None} |-> hist[n]]
    /\ ret.op = "delete_ref" => ~ret.raised /\ ret.result = ret.existed
    /\ ret.op = "update_ref" => ~ret.raised

-----------------------------------------------------------------------------
(* core/index.py: Index.add and Index.get_status; utils/file_operations.py: *)
(* list_files.  A disk is a function from the normalised path of every file *)
(* below the repository root to its content: the working tree together with *)
(* the metadata directory, of whose files the model keeps HEAD.  Paths are   *)
(* written relative to the repository root, which is the current directory. *)

S_dot == <<46>>                                          \* "."
S_dotdot == <<46,46>>                                    \* ".."
S_simplegit == <<46,115,105,109,112,108,101,103,105,116>>     \* ".simplegit"
P_HEAD == S_simplegit \o <<SLASH>> \o <<72,69,65,68>>    \* ".simplegit/HEAD"

Disk(wt, head) == (P_HEAD :> head) @@ wt

\* os.path.join(a, b)
join(a, b) ==
    IF StartsWith(b, <<SLASH>>) THEN b
    ELSE IF a = <<>> \/ a[Len(a)] = SLASH THEN a \o b
    ELSE a \o <<SLASH>> \o b

\* the loop of posixpath.normpath over the components of a relative path
RECURSIVE NormComps(_, _)
NormComps(comps, acc) ==
    IF comps = <<>> THEN acc
    ELSE IF comps[1] \in {<<>>, S_dot} THEN NormComps(Tail(comps), acc)
    ELSE IF comps[1] = S_dotdot /\ acc # <<>> /\ acc[Len(acc)] # S_dotdot
    THEN NormComps(Tail(comps), SubSeq(acc, 1, Len(acc) - 1))
    ELSE NormComps(Tail(comps), Append(acc, comps[1]))

\* "/".join(comps)
RECURSIVE JoinSlash(_)
JoinSlash(comps) ==
    IF comps = <<>> THEN <<>>
    ELSE IF Len(comps) = 1 THEN comps[1]
    ELSE comps[1] \o <<SLASH>> \o JoinSlash(Tail(comps))

\* os.path.normpath(p) of a relative path; os.path.relpath(join(root, p), root)
\* is the same path as long as p stays below the root
normpath(p) ==
    IF NormComps(SplitSlash(p), <<>>) = <<>> THEN S_dot
    ELSE JoinSlash(NormComps(SplitSlash(p), <<>>))

\* os.path.isfile, os.path.isdir and os.path.exists of join(repo_path, p)
isfile(d, p) == normpath(p) \in DOMAIN d
isdir(d, p) ==
    \/ normpath(p) = S_dot
    \/ \E f \in DOMAIN d : StartsWith(f, normpath(p) \o <<SLASH>>)
exists(d, p) == isfile(d, p) \/ isdir(d, p)

\* pattern in s, for str
Contains(s, pattern) ==
    \E i \in 0..(Len(s) - Len(pattern)) : SubSeq(s, i + 1, i + Len(pattern)) = pattern

\* sorted(S) for a set of str
RECURSIVE Sorted(_)
Sorted(S) ==
    IF S = {} THEN <<>>
    ELSE LET least == CHOOSE x \in S : \A y \in S : x = y \/ StrLess(x, y)
         IN <<least>> \o Sorted(S \ {least})

\* list_files(join(repo_path, directory), ignore_patterns): the paths, relative
\* to the directory, of the files below it that os.walk reaches; a directory
\* below it whose name holds a pattern is not entered and a file whose name
\* holds one is skipped
list_files(d, directory, ignore_patterns) ==
    LET base == IF normpath(directory) = S_dot THEN <<>>
                ELSE normpath(directory) \o <<SLASH>>
        below == {From(f, Len(base)) : f \in {g \in DOMAIN d : StartsWith(g, base)}}
        kept == {r \in below :
                   \A k \in 1..Len(SplitSlash(r)), pat \in ignore_patterns :
                       ~Contains(SplitSlash(r)[k], pat)}
    IN Sorted(kept)

\* Index._is_git_file
is_git_file(path) == StartsWith(path, S_simplegit)

\* the loop of Index.add over the files of a directory: st is the record
\* [objects, sha1_table, entries, result]
RECURSIVE add_each(_, _, _, _)
add_each(d, st, path, rel_files) ==
    IF rel_files = <<>> THEN st
    ELSE LET file_path == join(path, rel_files[1])
             r == add_file(st, st.entries, file_path, d[normpath(file_path)])
         IN add_each(d, [objects |-> r.objects, sha1_table |-> r.sha1_table,
                         entries |-> r.entries, result |-> st.result],
                     path, Tail(rel_files))

\* Index.add(path): the new store and entries and the returned value
add(d, fs, ents, path) ==
    LET st == [objects |-> fs.objects, sha1_table |-> fs.sha1_table, entries |-> ents,
               result |-> TRUE]
        rel_path == normpath(path)
        r == add_file(fs, ents, rel_path, d[rel_path])
    IN IF ~exists(d, path) THEN [st EXCEPT !.result = FALSE]
       ELSE IF isdir(d, path)
       THEN add_each(d, st, path, list_files(d, path, {S_simplegit}))
       ELSE IF ~is_git_file(rel_path)
       THEN [objects |-> r.objects, sha1_table |-> r.sha1_table, entries |-> r.entries,
             result |-> TRUE]
       ELSE [st EXCEPT !.result = FALSE]

\* the first loop of Index.get_status over the items of the index, in their
\* order: st is the record [objects, sha1_table, modified].  Reading a
\* directory raises, which counts as modified; Blob.create stores the blob
\* of every tracked file it reads.
RECURSIVE status_each(_, _, _)
status_each(d, st, items) ==
    IF items = <<>> THEN st
    ELSE LET path == items[1].key
             b == blob_create(st, Bytes(d[normpath(path)]))
         IN IF ~exists(d, path) \/ ~isfile(d, path)
            THEN status_each(d, [st EXCEPT !.modified = Append(@, path)], Tail(items))
            ELSE status_each(d, [objects |-> b.objects, sha1_table |-> b.sha1_table,
                                 modified |-> IF b.sha1 # items[1].val.sha1
                                              THEN Append(st.modified, path)
                                              ELSE st.modified],
                             Tail(items))

\* Index.get_status: the new store and the lists modified and untracked
get_status(d, fs, ents) ==
    LET st == status_each(d, [objects |-> fs.objects, sha1_table |-> fs.sha1_table,
                              modified |-> <<>>], ents)
        all_files == list_files(d, S_dot, {S_simplegit})
        listed == {k \in 1..Len(all_files) :
                     \A m \in 1..Len(ents) : ents[m].key # all_files[k]}
    IN [objects |-> st.objects, sha1_table |-> st.sha1_table,
        modified |-> st.modified,
        untracked |-> Sorted({all_files[k] : k \in listed})]

-----------------------------------------------------------------------------
(* SpecAdd: a working tree that is edited, staged with Index.add and        *)
(* compared with Index.get_status.  hist counts the calls of the run.       *)

MaxAdds == 2        \* calls of Index.add in one run
MaxEdits == 1       \* files written or removed in one run

P_ms == <<109,46,115,105,109,112,108,101,103,105,116>>   \* "m.simplegit"
WorkPaths == {P_a, P_dx, P_ms}
WorkContents == {<<120>>, <<121>>}
AddArgs == {P_a, S_dot \o <<SLASH>> \o P_a, S_dot, <<100>>, S_dot \o <<SLASH, 100>>,
            P_ms, S_simplegit, P_HEAD, P_b}

InitAdd ==
    /\ objects = <<>>
    /\ sha1_table = <<>>
    /\ entries = <<>>
    /\ refs = <<>>
    /\ HEAD = S_refColon \o S_refs_heads \o S_master
    /\ worktree = [p \in WorkPaths |-> <<120>>]
    /\ procs = <<>>
    /\ index_file = json_dumps(<<>>)
    /\ ret = [op |-> "init"]
    /\ hist = [adds |-> 0, edits |-> 0]

\* a file of the working tree is written by the user
WriteFile(path, content) ==
    /\ hist.edits < MaxEdits
    /\ worktree' = (path :> content) @@ worktree
    /\ worktree' # worktree
    /\ ret' = [op |-> "write"]
    /\ hist' = [hist EXCEPT !.edits = @ + 1]
    /\ UNCHANGED <<objects, sha1_table, entries, refs, HEAD, procs, index_file>>

\* a file of the working tree is removed by the user
RemoveFile(path) ==
    /\ hist.edits < MaxEdits
    /\ path \in DOMAIN worktree
    /\ worktree' = [p \in (DOMAIN worktree) \ {path} |-> worktree[p]]
    /\ ret' = [op |-> "remove"]
    /\ hist' = [hist EXCEPT !.edits = @ + 1]
    /\ UNCHANGED <<objects, sha1_table, entries, refs, HEAD, procs, index_file>>

Add(path) ==
    LET r == add(Disk(worktree, HEAD), FS, entries, path)
    IN /\ hist.adds < MaxAdds
       /\ objects' = r.objects
       /\ sha1_table' = r.sha1_table
       /\ entries' = r.entries
       /\ ret' = [op |-> "add", path |-> path, result |-> r.result]
       /\ hist' = [hist EXCEPT !.adds = @ + 1]
       /\ UNCHANGED <<refs, HEAD, worktree, procs, index_file>>

Status ==
    LET r == get_status(Disk(worktree, HEAD), FS, entries)
    IN /\ objects' = r.objects
       /\ sha1_table' = r.sha1_table
       /\ ret' = [op |-> "status", modified |-> r.modified, untracked |-> r.untracked]
       /\ UNCHANGED <<entries, refs, HEAD, worktree, procs, index_file, hist>>

NextAdd ==
    \/ \E p \in WorkPaths, c \in WorkContents : WriteFile(p, c)
    \/ \E p \in WorkPaths : RemoveFile(p)
    \/ \E p \in AddArgs : Add(p)
    \/ Status

SpecAdd == InitAdd /\ [][NextAdd]_vars

\* the hash Blob.create gives the content c
BlobSha(c) == blob_create(FS, Bytes(c)).sha1

Keys(e) == {e[k].key : k \in 1..Len(e)}

\* C16: every key of the index is the normalised path of its file relative
\* to the repository root, so that a file has one entry however it was
\* named; and after a successful add of a file its entry holds the hash of
\* the blob of its bytes and the mode 100644.
AddKeysNormalized ==
    /\ \A k \in 1..Len(entries) : entries[k].key = normpath(entries[k].key)
    /\ \A j, k \in 1..Len(entries) :
          j # k => normpath(entries[j].key) # normpath(entries[k].key)
    /\ (ret.op = "add" /\ ret.result /\ isfile(worktree, ret.path)) =>
          \E k \in 1..Len(entries) :
             /\ entries[k].key = normpath(ret.path)
             /\ entries[k].val = [sha1 |-> BlobSha(worktree[normpath(ret.path)]),
                                  mode |-> S_100644]

\* the path lies inside the metadata directory
InsideMeta(p) == SplitSlash(normpath(p))[1] = S_simplegit

\* the files of the working tree that the path names: itself, or those below it
Named(wt, p) ==
    {f \in DOMAIN wt : normpath(p) \in {S_dot, f} \/ StartsWith(f, normpath(p) \o <<SLASH>>)}

\* C17: no key of the index lies inside .simplegit; and an add of a file or
\* directory outside .simplegit succeeds and leaves an entry for every file
\* it names, whatever the names of those files.
NoMetadataStaged ==
    /\ \A k \in 1..Len(entries) : ~InsideMeta(entries[k].key)
    /\ (ret.op = "add" /\ ~InsideMeta(ret.path) /\ Named(worktree, ret.path) # {}) =>
          /\ ret.result
          /\ \A f \in Named(worktree, ret.path) :
                \E k \in 1..Len(entries) : normpath(entries[k].key) = f

Elems(s) == {s[k] : k \in 1..Len(s)}

\* C18: get_status gives as modified the keys whose file is missing or has
\* another blob hash than the stored one, and as untracked the files of the
\* working tree that are no key; a file staged with its present content is
\* in neither list.
StatusExact ==
    ret.op = "status" =>
        /\ Elems(ret.modified) =
              {entries[k].key : k \in {m \in 1..Len(entries) :
                  \/ ~isfile(worktree, entries[m].key)
                  \/ BlobSha(worktree[normpath(entries[m].key)]) # entries[m].val.sha1}}
        /\ Elems(ret.untracked) = (DOMAIN worktree) \ Keys(entries)
        /\ \A f \in DOMAIN worktree :
              (\E k \in 1..Len(entries) : /\ normpath(entries[k].key) = f
                                          /\ entries[k].val.sha1 = BlobSha(worktree[f]))
                  => f \notin Elems(ret.modified) \cup Elems(ret.untracked)

-----------------------------------------------------------------------------
(* SpecCommitText: blobs stored by add and commits stored by Commit.create   *)
(* with messages of one-byte and of two-byte characters.                    *)

S_e_acute == <<233>>                   \* "é", two bytes in UTF-8
TextMessages == {S_m, S_e_acute, S_m \o S_e_acute}
TextParents == {None, FakeSha(49)}
TextTrees == {FakeSha(49)}

NextCommitText ==
    \/ \E content \in FileContents : AddFile(P_a, content)
    \/ \E t \in TextTrees, message \in TextMessages, parent \in TextParents :
           CommitCreate(t, message, parent)

SpecCommitText == Init /\ [][NextCommitText]_vars

\* C19: in every stored object the length written in the header is the
\* number of bytes that follow the NUL.
HeaderLengthIsBytes ==
    \A path \in DOMAIN objects :
        LET data == decompress(objects[path])
            null_index == Find(data, NUL, 0)
            header == Slice(data, 0, null_index)
            declared == From(header, Find(header, SP, 0) + 1)
        IN declared = Dec(Len(data) - null_index - 1)

-----------------------------------------------------------------------------
(* SpecTreeDup: Tree.create applied to any list of entries, two entries of  *)
(* one name included.                                                       *)

InitDup ==
    /\ objects = <<>>
    /\ sha1_table = <<>>
    /\ entries = <<>>
    /\ refs = <<>>
    /\ HEAD = S_refColon \o S_refs_heads \o S_master
    /\ worktree = <<>>
    /\ procs = <<>>
    /\ index_file = json_dumps(<<>>)
    /\ hist = <<>>
    /\ ret \in {[op |-> "entries", entries |-> es] :
                   es \in SeqsUpTo(TreeItems, MaxTreeEntries)}

SpecTreeDup == InitDup /\ [][NextCodec]_vars

\* C20: Tree.create of entries of which two have the same name fails: it
\* returns no hash and stores no object.
DuplicateNamesRejected ==
    (/\ ret.op = "Tree.create"
     /\ \E i, j \in 1..Len(ret.entries) : i # j /\ ret.entries[i][2] = ret.entries[j][2])
        => objects = <<>> /\ ret.sha1 = Raise

-----------------------------------------------------------------------------
(* Damaged objects in SpecStore: hash_object stores whatever payload it is *)
(* given under whatever type, so the store holds objects whose header      *)
(* declares another length than the payload has, and trees whose payload   *)
(* is not a sequence of whole entries.                                     *)

\* content is a sequence of whole entries: "<mode> <name>" NUL and 20 bytes
RECURSIVE WholeEntries(_)
WholeEntries(content) ==
    \/ content = <<>>
    \/ LET null_pos == Find(content, NUL, 0)
       IN /\ null_pos # -1
          /\ Len(content) >= null_pos + 21
          /\ WholeEntries(From(content, null_pos + 21))

\* the length the header of a stored object declares
DeclaredLength(data) ==
    LET header == Slice(data, 0, Find(data, NUL, 0))
    IN From(header, Find(header, SP, 0) + 1)

\* C21: a stored object whose payload has another length than its header
\* declares is not returned by read_object, and a stored tree whose payload is
\* not a sequence of whole entries is not returned by Tree.read: both fail
LoadRejectsDamaged ==
    \A i \in 1..Len(hist) :
        LET data == decompress(objects[object_path(hist[i].sha1)])
            payload == From(data, Find(data, NUL, 0) + 1)
        IN /\ DeclaredLength(data) # Dec(Len(payload))
                => read_object(objects, hist[i].sha1) = <<Raise, Raise>>
           /\ (hist[i].type = S_tree /\ ~WholeEntries(payload))
                => tree_read(objects, hist[i].sha1) = TreeError

-----------------------------------------------------------------------------
(* utils/file_operations.py: safe_write, step by step.  SpecAtomic runs    *)
(* Reference.update_ref, Reference.update_HEAD and Index.save in several   *)
(* processes at once; each is a safe_write, whose steps are the creation   *)
(* of the temporary file, the writes that fill it and the rename.  Another *)
(* process reads a file between any two steps.                             *)

S_HEAD == <<72,69,65,68>>                                \* "HEAD"
S_index == <<105,110,100,101,120>>                       \* "index"

\* the files of .simplegit that safe_write replaces
GitDir == [refs |-> refs, HEAD |-> HEAD, index_file |-> index_file]

\* open(path).read(); None when there is no such file
read_file(gd, name) ==
    IF name = S_HEAD THEN gd.HEAD
    ELSE IF name = S_index THEN gd.index_file
    ELSE IF IsFileAt(gd.refs, name) THEN gd.refs[name]
    ELSE None

\* the file name holds content
write_file(gd, name, content) ==
    IF name = S_HEAD THEN [gd EXCEPT !.HEAD = content]
    ELSE IF name = S_index THEN [gd EXCEPT !.index_file = content]
    ELSE [gd EXCEPT !.refs = (name :> content) @@ gd.refs]

\* ensure_dir(os.path.dirname(ref_path))
ensure_dir(rf, ref_name) ==
    [a \in {b \in Ancestors(ref_name) : ~Exists(rf, b)} |-> Dir] @@ rf

\* tempfile.NamedTemporaryFile(dir=dir_name, delete=False): the new file
safe_write_temp(gd, path) == join(dirname(path), TmpName(gd.refs))

\* a mutation of safe_write: the content is written to the file itself
safe_write_inplace(path, temp) == path

\* temp_file.write(content): the file that receives the content
safe_write_file(path, temp) == temp

\* shutil.move(temp_file.name, path): os.rename, which puts the file inside
\* path when path is a directory
safe_write_move(gd, temp, path) ==
    LET dst == IF IsDirAt(gd.refs, path) THEN join(path, basename(temp)) ELSE path
    IN write_file([gd EXCEPT !.refs = Remove(gd.refs, temp)], dst, gd.refs[temp])

MaxWrites == 2      \* calls of safe_write in one run

Procs == {1, 2}
AtomicRefs == {S_refs_heads \o S_master}
AtomicTargets == {S_master, FakeSha(49)}
AtomicIndexes == {<<>>, <<[key |-> <<97>>, val |-> [sha1 |-> FakeSha(49), mode |-> S_100644]]>>}

InitAtomic ==
    /\ objects = <<>>
    /\ sha1_table = <<>>
    /\ entries = <<>>
    /\ refs = <<>>
    /\ HEAD = S_refColon \o S_refs_heads \o S_master
    /\ index_file = json_dumps(<<>>)
    /\ worktree = <<>>
    /\ procs = <<>>
    /\ ret = [op |-> "init"]
    /\ hist = [writes |-> 0,
               given |-> [n \in AtomicRefs \cup {S_HEAD, S_index} |->
                             {read_file(GitDir, n)}]]

\* safe_write(path, content) up to the creation of the temporary file, in a
\* .simplegit whose directories are those of gd
SafeWriteOpen(p, op, gd, path, content) ==
    LET temp == safe_write_temp(gd, path)
    IN /\ p \notin DOMAIN procs
       /\ hist.writes < MaxWrites
       /\ refs' = (temp :> <<>>) @@ gd.refs
       /\ procs' = (p :> [op |-> op, path |-> path, content |-> content,
                          temp |-> temp, written |-> 0]) @@ procs
       /\ hist' = [writes |-> hist.writes + 1,
                   given |-> [hist.given EXCEPT ![path] = @ \cup {content}]]
       /\ UNCHANGED <<objects, sha1_table, entries, HEAD, index_file, worktree, ret>>

\* Reference.update_ref(ref_name, sha1)
UpdateRefOpen(p, ref_name, sha1) ==
    /\ ~update_ref_raises(refs, ref_name)
    /\ SafeWriteOpen(p, "update_ref", [GitDir EXCEPT !.refs = ensure_dir(refs, ref_name)],
                     ref_name, sha1 \o <<LF>>)

\* Reference.update_HEAD(target)
UpdateHEADOpen(p, target) ==
    SafeWriteOpen(p, "update_HEAD", GitDir, S_HEAD, update_HEAD(refs, target))

\* Index.save() of a process whose index holds e
IndexSaveOpen(p, e) ==
    SafeWriteOpen(p, "save", GitDir, S_index, json_dumps(e))

\* temp_file.write(content): the content reaches the file in one piece or in
\* two, as the buffer is flushed
SafeWriteWrite(p, whole) ==
    /\ p \in DOMAIN procs
    /\ LET k == IF whole THEN Len(procs[p].content) ELSE Len(procs[p].content) \div 2
           gd == write_file(GitDir, safe_write_file(procs[p].path, procs[p].temp),
                            SubSeq(procs[p].content, 1, k))
       IN /\ k > procs[p].written
          /\ refs' = gd.refs
          /\ HEAD' = gd.HEAD
          /\ index_file' = gd.index_file
          /\ procs' = [procs EXCEPT ![p].written = k]
    /\ UNCHANGED <<objects, sha1_table, entries, worktree, ret, hist>>

\* the file is closed and moved to its place
SafeWriteMove(p) ==
    /\ p \in DOMAIN procs
    /\ procs[p].written = Len(procs[p].content)
    /\ LET gd == safe_write_move(GitDir, procs[p].temp, procs[p].path)
       IN /\ refs' = gd.refs
          /\ HEAD' = gd.HEAD
          /\ index_file' = gd.index_file
    /\ procs' = [q \in (DOMAIN procs) \ {p} |-> procs[q]]
    /\ UNCHANGED <<objects, sha1_table, entries, worktree, ret, hist>>

\* a process reads a file, as Reference.get_ref, Reference.get_HEAD and
\* Index.load do
ReadFile(name) ==
    /\ ret' = [op |-> "read", name |-> name, content |-> read_file(GitDir, name),
               during |-> {procs[p].written : p \in {q \in DOMAIN procs : procs[q].path = name}}]
    /\ UNCHANGED <<objects, sha1_table, entries, refs, HEAD, index_file, worktree, procs, hist>>

NextAtomic ==
    \/ \E p \in Procs, n \in AtomicRefs, h \in RefShas : UpdateRefOpen(p, n, h)
    \/ \E p \in Procs, t \in AtomicTargets : UpdateHEADOpen(p, t)
    \/ \E p \in Procs, e \in AtomicIndexes : IndexSaveOpen(p, e)
    \/ \E p \in Procs, whole \in BOOLEAN : SafeWriteWrite(p, whole)
    \/ \E p \in Procs : SafeWriteMove(p)
    \/ \E n \in AtomicRefs \cup {S_HEAD, S_index} : ReadFile(n)

SpecAtomic == InitAtomic /\ [][NextAtomic]_vars

\* C22: what a process reads from a ref file, from HEAD or from the index
\* file is the whole content the file had at first or the whole content one
\* of the calls of update_ref, update_HEAD or Index.save was to give it
AtomicReplace ==
    ret.op = "read" => ret.content \in hist.given[ret.name]

\* a file was read while a safe_write of it had filled half of its temporary
\* file, and the read gave the content the file had before
AtomicReplaceWitness ==
    /\ ret.op = "read"
    /\ \E w \in ret.during : w > 0
    /\ \E p \in DOMAIN procs :
           /\ procs[p].path = ret.name
           /\ procs[p].written < Len(procs[p].content)
           /\ ret.content # procs[p].content

-----------------------------------------------------------------------------
(* SpecObjRace: hash_object step by step.  open(object_path, "wb") makes   *)
(* or empties the object file, write fills it; other processes store the   *)
(* same or other contents and read objects between the two steps.          *)

\* hash_object up to open(object_path, "wb"): the file is there and empty
hash_object_open(fs, data, obj_type) ==
    LET r == hash_object(fs, data, obj_type)
    IN [r EXCEPT !.objects = (object_path(r.sha1) :> <<>>) @@ fs.objects]

InitObjRace ==
    /\ objects = <<>>
    /\ sha1_table = <<>>
    /\ entries = <<>>
    /\ refs = <<>>
    /\ HEAD = S_refColon \o S_refs_heads \o S_master
    /\ index_file = json_dumps(<<>>)
    /\ worktree = <<>>
    /\ procs = <<>>
    /\ ret = [op |-> "init"]
    /\ hist = <<>>

HashObjectOpen(p, data, obj_type) ==
    LET r == hash_object_open(FS, data, obj_type)
        h == [data |-> data, type |-> obj_type, sha1 |-> r.sha1]
    IN /\ p \notin DOMAIN procs
       /\ Len(r.sha1_table) <= MaxObjects
       /\ objects' = r.objects
       /\ sha1_table' = r.sha1_table
       /\ procs' = (p :> h) @@ procs
       /\ hist' = IF \E i \in 1..Len(hist) : hist[i] = h THEN hist ELSE Append(hist, h)
       /\ UNCHANGED <<entries, refs, HEAD, index_file, worktree, ret>>

\* f.write(compress(store)) and the return
HashObjectWrite(p) ==
    /\ p \in DOMAIN procs
    /\ objects' = hash_object(FS, procs[p].data, procs[p].type).objects
    /\ procs' = [q \in (DOMAIN procs) \ {p} |-> procs[q]]
    /\ ret' = [op |-> "hash_object", sha1 |-> procs[p].sha1]
    /\ UNCHANGED <<sha1_table, entries, refs, HEAD, index_file, worktree, hist>>

\* read_object(sha1) by another process; writers are the processes that are
\* storing this hash at that moment
ReadObject(sha1) ==
    /\ ret' = [op |-> "read_object", sha1 |-> sha1,
               result |-> read_object(objects, sha1),
               writers |-> {p \in DOMAIN procs : procs[p].sha1 = sha1}]
    /\ UNCHANGED <<objects, sha1_table, entries, refs, HEAD, index_file, worktree, procs, hist>>

NextObjRace ==
    \/ \E p \in Procs, data \in ReadPayloads, t \in {S_blob, S_tree} : HashObjectOpen(p, data, t)
    \/ \E p \in Procs : HashObjectWrite(p)
    \/ \E sha1 \in KnownShas : ReadObject(sha1)

SpecObjRace == InitObjRace /\ [][NextObjRace]_vars

\* C23: a read_object that runs while hash_object stores the same hash gives
\* not-found or the type and payload stored, and once no store is running
\* every object stored holds the bytes of its content
ObjectWriteAtomic ==
    /\ ret.op = "read_object" =>
          \/ ret.result = <<None, None>>
          \/ \E i \in 1..Len(hist) :
                 /\ hist[i].sha1 = ret.sha1
                 /\ ret.result = <<hist[i].type, AsBytes(hist[i].data)>>
    /\ procs = <<>> =>
          \A i \in 1..Len(hist) :
              read_object(objects, hist[i].sha1) = <<hist[i].type, AsBytes(hist[i].data)>>

-----------------------------------------------------------------------------
(* SpecCommitRace: Repository.commit step by step, in several processes on *)
(* one repository.  A process resolves its parent, creates its commit      *)
(* object and updates the branch; the others take their steps in between.  *)
(* Every process holds the index as the index file gave it.                *)

MaxCommits == 2     \* calls of Repository.commit in one run of SpecCommitRace

RaceMessages == {S_m, S_f, S_m \o S_f}

\* Repository.commit with a message, up to resolve_HEAD
commit_resolve(rp, ents) ==
    LET t == write_tree(rp, ents)
    IN [objects |-> t.objects, sha1_table |-> t.sha1_table, tree_sha1 |-> t.sha1,
        head_sha1 |-> resolve_HEAD(rp.refs, rp.HEAD)]

\* Repository.commit from get_HEAD on: the branch or HEAD takes the new hash
commit_update(rp, commit_sha1) ==
    LET is_detached == get_HEAD(rp.HEAD)[1]
        target == get_HEAD(rp.HEAD)[2]
    IN [refs |-> IF is_detached THEN rp.refs
                 ELSE create_branch(rp.refs, target, commit_sha1),
        HEAD |-> IF is_detached THEN update_HEAD(rp.refs, commit_sha1) ELSE rp.HEAD]

\* the repository after init and add of one file
InitCommitRace ==
    LET r == add_file([objects |-> <<>>, sha1_table |-> <<>>], <<>>, P_a, <<120>>)
    IN /\ objects = r.objects
       /\ sha1_table = r.sha1_table
       /\ entries = r.entries
       /\ refs = <<>>
       /\ HEAD = S_refColon \o S_refs_heads \o S_master
       /\ index_file = json_dumps(r.entries)
       /\ worktree = <<>>
       /\ procs = <<>>
       /\ ret = [op |-> "init"]
       /\ hist = [begun |-> 0, log |-> <<>>]

CommitResolve(p, message) ==
    LET r == commit_resolve(Repo, entries)
    IN /\ p \notin DOMAIN procs
       /\ hist.begun < MaxCommits
       /\ r.head_sha1 # Raise
       /\ objects' = r.objects
       /\ sha1_table' = r.sha1_table
       /\ procs' = (p :> [pc |-> "resolved", message |-> message, tree_sha1 |-> r.tree_sha1,
                          head_sha1 |-> r.head_sha1, sha1 |-> None]) @@ procs
       /\ hist' = [hist EXCEPT !.begun = @ + 1]
       /\ UNCHANGED <<entries, refs, HEAD, index_file, worktree, ret>>

CommitObject(p, timestamp) ==
    /\ p \in DOMAIN procs
    /\ procs[p].pc = "resolved"
    /\ LET c == commit_create(FS, procs[p].tree_sha1, procs[p].message, procs[p].head_sha1,
                              None, None, timestamp)
       IN /\ objects' = c.objects
          /\ sha1_table' = c.sha1_table
          /\ procs' = [procs EXCEPT ![p].pc = "created", ![p].sha1 = c.sha1]
    /\ UNCHANGED <<entries, refs, HEAD, index_file, worktree, ret, hist>>

CommitUpdate(p) ==
    /\ p \in DOMAIN procs
    /\ procs[p].pc = "created"
    /\ refs' = commit_update(Repo, procs[p].sha1).refs
    /\ HEAD' = commit_update(Repo, procs[p].sha1).HEAD
    /\ procs' = [q \in (DOMAIN procs) \ {p} |-> procs[q]]
    /\ ret' = [op |-> "commit", message |-> procs[p].message, result |-> procs[p].sha1,
               head_sha1 |-> procs[p].head_sha1]
    /\ hist' = [hist EXCEPT !.log = Append(@, [head_sha1 |-> procs[p].head_sha1,
                                               sha1 |-> procs[p].sha1])]
    /\ UNCHANGED <<objects, sha1_table, entries, index_file, worktree>>

NextCommitRace ==
    \/ \E p \in Procs, message \in RaceMessages : CommitResolve(p, message)
    \/ \E p \in Procs, timestamp \in Times : CommitObject(p, timestamp)
    \/ \E p \in Procs : CommitUpdate(p)

SpecCommitRace == InitCommitRace /\ [][NextCommitRace]_vars

\* the commits reachable from sha1 along the parent links
Reachable(objs, sha1) ==
    LET a == Ancestry(objs, sha1, Cardinality(DOMAIN objs)) IN {a[k] : k \in 1..Len(a)}

\* C24: when the commit that updated the branch last had resolved the same
\* parent as another commit that updated it before, the branch holds the later
\* one and the earlier one is reachable from no ref
LostUpdate ==
    \A i \in 1..(Len(hist.log) - 1) :
        LET last == hist.log[Len(hist.log)]
        IN (hist.log[i].head_sha1 = last.head_sha1 /\ hist.log[i].sha1 # last.sha1) =>
              /\ get_branch(refs, S_master) = last.sha1
              /\ hist.log[i].sha1 \notin Reachable(objects, get_branch(refs, S_master))

\* two processes have committed from the same parent, one after the other
LostUpdateWitness ==
    /\ Len(hist.log) >= 2
    /\ hist.log[Len(hist.log) - 1].head_sha1 = hist.log[Len(hist.log)].head_sha1
    /\ hist.log[Len(hist.log) - 1].sha1 # hist.log[Len(hist.log)].sha1
    /\ procs = <<>>
    /\ get_branch(refs, S_master) = ret.result

-----------------------------------------------------------------------------
(* Repository.commit on an empty index, in Spec *)

\* the hashes of the commit objects of a store
CommitObjects(objs) ==
    {path[1] \o path[2] : path \in {q \in DOMAIN objs :
                                       read_object(objs, q[1] \o q[2])[1] = S_commit}}

\* C25: a commit with a message on an empty index returns no hash, adds no
\* commit object and leaves the refs and HEAD as they were
EmptyIndexNothingToCommit ==
    [][(ret'.op = "commit" /\ ret'.message # <<>> /\ entries = <<>>) =>
          /\ ret'.result = None
          /\ CommitObjects(objects') = CommitObjects(objects)
          /\ refs' = refs
          /\ HEAD' = HEAD]_vars

-----------------------------------------------------------------------------
(* SpecRepo: the working tree of SpecAdd under add and status, together    *)
(* with commit (which builds the tree with write_tree) and the calls that  *)
(* move HEAD and delete a branch.                                          *)

RepoCommit(message) ==
    LET r == commit(Repo, entries, message, 1)
    IN /\ Cardinality(CommitObjects(objects)) < MaxCommits
       /\ r.result # Raise
       /\ objects' = r.objects
       /\ sha1_table' = r.sha1_table
       /\ refs' = r.refs
       /\ HEAD' = r.HEAD
       /\ ret' = [op |-> "commit", result |-> r.result]
       /\ UNCHANGED <<entries, index_file, worktree, procs, hist>>

RepoUpdateHEAD(target) ==
    /\ HEAD' = update_HEAD(refs, target)
    /\ ret' = [op |-> "update_HEAD"]
    /\ UNCHANGED <<objects, sha1_table, entries, refs, index_file, worktree, procs, hist>>

RepoDeleteBranch(branch_name) ==
    /\ refs' = delete_branch(refs, branch_name)[1]
    /\ ret' = [op |-> "delete_branch"]
    /\ UNCHANGED <<objects, sha1_table, entries, HEAD, index_file, worktree, procs, hist>>

NextRepo ==
    \/ \E c \in WorkContents : WriteFile(P_a, c)
    \/ Add(P_a)
    \/ Status
    \/ RepoCommit(S_m)
    \/ \E target \in {S_master} \cup Resolved(refs, HEAD) : RepoUpdateHEAD(target)
    \/ RepoDeleteBranch(S_master)

SpecRepo == InitAdd /\ [][NextRepo]_vars

\* C26: the key of every stored object is the SHA-1 of the bytes stored
\* under it, header and payload, and no step removes an object or changes
\* the bytes under a key
StoreAppendOnly ==
    /\ [](\A path \in DOMAIN objects :
            /\ decompress(objects[path]) # Raise
            /\ \E i \in 1..Len(sha1_table) :
                  /\ sha1_table[i] = decompress(objects[path])
                  /\ path = object_path(Sha1Hex(sha1_table, sha1_table[i])))
    /\ [][\A path \in DOMAIN objects :
            path \in DOMAIN objects' /\ objects'[path] = objects[path]]_vars

\* status has stored the blob of an edited file in a repository with a commit
StoreAppendOnlyWitness ==
    /\ ret.op = "status"
    /\ ret.modified # <<>>
    /\ CommitObjects(objects) # {}
    /\ \E k \in 1..Len(entries) :
           /\ isfile(worktree, entries[k].key)
           /\ BlobSha(worktree[normpath(entries[k].key)]) # entries[k].val.sha1
           /\ object_path(BlobSha(worktree[normpath(entries[k].key)])) \in DOMAIN objects

-----------------------------------------------------------------------------
(* SpecAddCommit: the working tree of SpecAdd under edits, add and commit  *)
(* alone.                                                                  *)

NextAddCommit ==
    \/ \E c \in WorkContents : WriteFile(P_a, c)
    \/ \E p \in {P_a, <<100>>, P_ms} : Add(p)
    \/ RepoCommit(S_m)

SpecAddCommit == InitAdd /\ [][NextAddCommit]_vars

\* the hashes of the objects of a store
StoredShas(objs) == {path[1] \o path[2] : path \in DOMAIN objs}

TypeOf(objs, sha1) == read_object(objs, sha1)[1]

\* C27: every hash of the index names a stored blob; every entry of every
\* stored tree names a stored object, a tree for mode 040000 and a blob
\* otherwise; every stored commit names a stored tree and no parent or a
\* stored commit; every branch and a detached HEAD name a stored commit
ReferentialIntegrity ==
    /\ \A k \in 1..Len(entries) : TypeOf(objects, entries[k].val.sha1) = S_blob
    /\ \A t \in {h \in StoredShas(objects) : TypeOf(objects, h) = S_tree} :
           \A k \in 1..Len(tree_read(objects, t)) :
               TypeOf(objects, tree_read(objects, t)[k][3])
                   = IF tree_read(objects, t)[k][1] = S_040000 THEN S_tree ELSE S_blob
    /\ \A c \in CommitObjects(objects) :
           /\ commit_read(objects, c) # CommitError
           /\ TypeOf(objects, commit_read(objects, c).tree) = S_tree
           /\ commit_read(objects, c).parent # None =>
                  TypeOf(objects, commit_read(objects, c).parent) = S_commit
    /\ \A b \in DOMAIN list_branches(refs) : TypeOf(objects, list_branches(refs)[b]) = S_commit
    /\ get_HEAD(HEAD)[1] => TypeOf(objects, get_HEAD(HEAD)[2]) = S_commit

\* a second commit, on a parent, of an index with an entry, with a tree that
\* has an entry
ReferentialIntegrityWitness ==
    /\ ret.op = "commit"
    /\ ret.result \notin {None, Raise}
    /\ commit_read(objects, ret.result).parent # None
    /\ entries # <<>>
    /\ tree_read(objects, commit_read(objects, ret.result).tree) # <<>>
    /\ get_branch(refs, S_master) = ret.result

-----------------------------------------------------------------------------
(* SpecDelete: add and commit on the branch of HEAD, and delete_branch.    *)
(* hist is that of Spec with one more field: was, the commit the branch of *)
(* HEAD held when it was last deleted; log lists the commits made since.   *)

InitDelete ==
    /\ objects = <<>>
    /\ sha1_table = <<>>
    /\ entries = <<>>
    /\ refs = <<>>
    /\ HEAD = S_refColon \o S_refs_heads \o S_master
    /\ index_file = json_dumps(<<>>)
    /\ worktree = <<>>
    /\ procs = <<>>
    /\ ret = [op |-> "init"]
    /\ hist = [base |-> None, log |-> <<>>, was |-> None]

DeleteBranchOfHEAD(branch_name) ==
    LET was == get_branch(refs, branch_name)
        d == delete_branch(refs, branch_name)
    IN /\ ~d[3]
       /\ refs' = d[1]
       /\ ret' = [op |-> "delete_branch", branch |-> branch_name, was |-> was,
                  result |-> d[2]]
       /\ hist' = IF get_HEAD(HEAD) = <<FALSE, branch_name>> /\ was # None
                  THEN [base |-> None, log |-> <<>>, was |-> was]
                  ELSE hist
       /\ UNCHANGED <<objects, sha1_table, entries, HEAD, index_file, worktree, procs>>

NextDelete ==
    \/ \E content \in FileContents : AddFile(P_a, content)
    \/ \E message \in {S_m, S_f}, timestamp \in Times : Commit(message, timestamp)
    \/ \E b \in Branches : DeleteBranchOfHEAD(b)

SpecDelete == InitDelete /\ [][NextDelete]_vars

\* delete_branch(b) with HEAD at Symbolic(b) returns True and leaves HEAD at
\* Symbolic(b), which resolves to nothing; the first commit after it has no
\* parent and b holds it
DeleteThenCommit ==
    /\ (ret.op = "delete_branch" /\ ret.was # None
          /\ get_HEAD(HEAD) = <<FALSE, ret.branch>>) =>
          /\ ret.result
          /\ resolve_HEAD(refs, HEAD) = None
    /\ (hist.was # None /\ hist.log # <<>>) =>
          /\ get_HEAD(HEAD)[1] = FALSE
          /\ get_parent(objects, hist.log[1]) = None
          /\ ~HasParentLine(objects, hist.log[1])
          /\ Len(hist.log) = 1 => get_branch(refs, get_HEAD(HEAD)[2]) = hist.log[1]

\* C28 as stated: as DeleteThenCommit, and no commit of the history the
\* branch had before is reachable from the first commit after the delete
DeleteCurrentBranch ==
    /\ DeleteThenCommit
    /\ (hist.was # None /\ hist.log # <<>>) =>
          Reachable(objects, hist.was) \cap Reachable(objects, hist.log[1]) = {}

\* C28, amended: as DeleteThenCommit, and the first commit after the delete
\* reaches no commit but itself, so that a commit of the earlier history is
\* reachable from the branch only when it is that very commit
DeleteCurrentBranchRestart ==
    /\ DeleteThenCommit
    /\ (hist.was # None /\ hist.log # <<>>) =>
          /\ Reachable(objects, hist.log[1]) = {hist.log[1]}
          /\ Reachable(objects, hist.was) \cap Reachable(objects, hist.log[1])
                 \subseteq {hist.log[1]}

\* the branch of HEAD held a commit with a parent, was deleted, and a commit
\* has been made since
DeleteCurrentBranchWitness ==
    /\ hist.was # None
    /\ get_parent(objects, hist.was) # None
    /\ Len(hist.log) = 1
    /\ ret.op = "commit"
    /\ ret.result = hist.log[1]
    /\ hist.was # hist.log[1]

====
